---- MODULE Spec2Model ----
(***************************************************************************)
(* KodoBashke: mutual-match detection (the swipes/matches tables, their    *)
(* constraints and row-level policies, and the AFTER INSERT trigger        *)
(* create_match_on_mutual_like), table messages and its policies, the chat *)
(* session of one match (initial fetch, realtime subscription, insert      *)
(* event handler, sendMessage with validation and the rate limiter,        *)
(* teardown) and the Matches screen (fetchMatches).                        *)
(*                                                                         *)
(* The data store is PostgreSQL at its default isolation level READ        *)
(* COMMITTED: every statement (also each query inside the trigger          *)
(* function) reads the rows committed before the statement started plus    *)
(* the rows written by its own transaction.  A swipe insert issued through *)
(* the REST interface is one transaction: INSERT, trigger, COMMIT.  The    *)
(* default now() of a created_at column is the time the transaction of the *)
(* insert began; rows become visible, and their insert events are sent, in *)
(* the order of the commits.                                               *)
(*                                                                         *)
(* The client is React: a state setter called after an await runs whether  *)
(* or not the component is still mounted, and an effect runs again, after  *)
(* its cleanup, whenever one of its dependencies is a new object.          *)
(***************************************************************************)
EXTENDS Integers, Sequences, FiniteSets, Bags, TLC

\* ------------------------------------------------------------------ bounds
NUsers == 2
NTx == 2
MaxSwipeRows == 2
MaxMatchRows == 1
MaxMsgs == 3
MaxReports == 2
MaxTicks == 3
MaxReruns == 1
MaxListMatches == 2
MaxListMsgs == 2
MaxCalls == 4
MaxEvents == 2

\* identities (uuid); the integer order stands for the uuid order
Users == 1..NUsers

VARIABLES
  swipes,      \* committed rows of table swipes: bag of [user_id, target_user_id, is_like]
  matches,     \* committed rows of table matches: set of [id, user1_id, user2_id]
  tx,          \* the swipe inserts in progress (at most NTx sessions)
  response,    \* outcome of the swipe insert that finished last
  warned,      \* the server log holds a WARNING raised by the trigger
  dbMessages,  \* committed rows of table messages of the chat's match, by created_at
  messages,    \* Chat: useState messages (ids, in display order)
  loading,     \* Chat: useState loading
  fetch,       \* Chat: position of fetchMessages
  fetchData,   \* Chat: the rows the messages query selected
  channel,     \* Chat: state of the realtime channel of the session
  feed,        \* Chat: insert events queued for the channel, not yet delivered
  timers,      \* Chat: pending setTimeout(scrollToEnd) callbacks
  messageRows, \* committed rows of table messages: set of [id, match_id, sender_id, by]
  msgResponse, \* the statement on messages that finished last: [result, uid, match_id, rows]
  newMessage,  \* Chat: useState newMessage (the text of the input field)
  sending,     \* Chat: useState sending
  insert,      \* Chat: position of the insert request of sendMessage
  pending,     \* Chat: the content of the insert request
  sendResult,  \* Chat: the branch the last call of sendMessage took
  limits,      \* rateLimiter.limits: Map from key to [count, resetTime]
  now,         \* Date.now() in ms
  captured,    \* number of exceptions handed to captureException
  alert,       \* the retry-after notice shown to the user, or "none"
  openChannels, \* Chat: number of channels of the session that the client holds
  stale,       \* Chat: calls of fetchMessages of earlier runs of the effect, in flight
  reruns,      \* Chat: number of times the effect ran again
  listPc,      \* Matches: position of fetchMatches
  listData,    \* Matches: data of the matches query (rows, newest first)
  listMsgs,    \* Matches: messagesData of the messages query (rows, newest first)
  listTable,   \* history: the rows of table messages when the messages query settled
  roundTrips,  \* history: queries issued by the current or the last run of fetchMatches
  matchList,   \* Matches: useState matches
  listLoading, \* Matches: useState loading
  calls,       \* history: the calls of check, reset and clear on rateLimiter, oldest first
  login,       \* Login: useState loading, the sign-in request and the requests sent so far
  chatId,      \* Chat: the id parameter of the route (useLocalSearchParams)
  auth,        \* AuthProvider: useState session and loading, getSession, the auth client
  discover     \* Discover: useState profiles, currentIndex, loading, swiping; its requests

dbVars == <<swipes, matches, tx, response, warned>>
chatVars == <<dbMessages, messages, loading, fetch, fetchData, channel, feed, timers,
              openChannels, stale, reruns>>
msgVars == <<messageRows, msgResponse>>
sendVars == <<newMessage, sending, insert, pending, sendResult, limits, now, captured, alert>>
listVars == <<listPc, listData, listMsgs, listTable, roundTrips, matchList, listLoading>>
limVars == <<calls, login>>
appVars == <<chatId, auth, discover>>
\* frames: what the actions of one part leave alone
nonDbVars == <<chatVars, msgVars, sendVars, listVars, limVars, appVars>>
nonChatVars == <<dbVars, msgVars, sendVars, listVars, limVars, appVars>>
vars == <<swipes, matches, tx, response, warned, dbMessages, messages, loading, fetch, fetchData,
          channel, feed, timers, messageRows, msgResponse, newMessage, sending, insert, pending,
          sendResult, limits, now, captured, alert, openChannels, stale, reruns, listPc,
          listData, listMsgs, listTable, roundTrips, matchList, listLoading, calls, login,
          chatId, auth, discover>>

\* ------------------------------------------------------------ SQL helpers
LEAST(a, b) == IF a <= b THEN a ELSE b
GREATEST(a, b) == IF a >= b THEN a ELSE b

SwipeRow(u, v, l) == [user_id |-> u, target_user_id |-> v, is_like |-> l]
NoMatch == <<>>

\* a swipe insert that has written its row: the row, the position of its
\* trigger, the trigger's variable match_exists and the match row it wrote.
\* prior is a history field: the reverse like was already committed when the
\* INSERT ran.
NewTx(row) == [pc |-> "inserted", row |-> row, match_exists |-> FALSE,
               newMatch |-> NoMatch,
               prior |-> CopiesIn(SwipeRow(row.target_user_id, row.user_id, TRUE),
                                  swipes) > 0]

\* number of committed swipe rows with key (u, v)
SwipeCount(u, v) == CopiesIn(SwipeRow(u, v, TRUE), swipes) + CopiesIn(SwipeRow(u, v, FALSE), swipes)

\* rows of table swipes, committed and in flight
TotalSwipeRows == BagCardinality(swipes) + Cardinality(tx)

\* CREATE POLICY "Users can create their own swipes" WITH CHECK (auth.uid() = user_id)
SwipesInsertPolicy(uid, row) == uid = row.user_id

\* UNIQUE(user_id, target_user_id) against the committed rows
SwipesUniqueViolation_None(row) == FALSE
SwipesUniqueViolation(row) == SwipeCount(row.user_id, row.target_user_id) > 0

\* an uncommitted row with the same key makes the inserter wait on the index
SwipesUniqueWait(row) ==
  \E o \in tx : /\ o.row.user_id = row.user_id
                /\ o.row.target_user_id = row.target_user_id

\* CHECK (user1_id < user2_id) of table matches
MatchesCheck_None(u1, u2) == TRUE
MatchesCheck_Le(u1, u2) == u1 <= u2
MatchesCheck(u1, u2) == u1 < u2

\* gen_random_uuid(): an id no row has (rows are never deleted)
NewMatchId == Cardinality(matches) + 1

\* ------------------------------------------------ swipe insert transaction
\* INSERT INTO swipes by a session authenticated as uid
InsertSwipe(uid, row) ==
  /\ Cardinality(tx) < NTx
  /\ TotalSwipeRows < MaxSwipeRows
  /\ IF ~SwipesInsertPolicy(uid, row)
       THEN response' = "denied" /\ UNCHANGED tx
       ELSE /\ ~SwipesUniqueWait(row)
            /\ IF SwipesUniqueViolation(row)
                 THEN response' = "conflict" /\ UNCHANGED tx
                 ELSE tx' = tx \cup {NewTx(row)} /\ UNCHANGED response
  /\ UNCHANGED <<swipes, matches, warned>>
  /\ UNCHANGED nonDbVars

\* trigger lines 21-26: EXISTS (reverse like), over the committed rows and the
\* row of the transaction itself
ReverseLikeExists(r) ==
  LET rev == SwipeRow(r.row.target_user_id, r.row.user_id, TRUE)
  IN \/ CopiesIn(rev, swipes) > 0
     \/ r.row = rev

\* trigger lines 19-26: IF NEW.is_like AND EXISTS (reverse like)
TriggerCheckReverse(r) ==
  /\ r.pc = "inserted"
  /\ tx' = (tx \ {r}) \cup
        {[r EXCEPT !.pc = IF r.row.is_like /\ ReverseLikeExists(r)
                            THEN "mutual" ELSE "returned"]}
  /\ UNCHANGED <<swipes, matches, response, warned>>
  /\ UNCHANGED nonDbVars

\* trigger lines 28-32: SELECT EXISTS (...) INTO match_exists
TriggerSelectMatchExists(r) ==
  /\ r.pc = "mutual"
  /\ LET l == LEAST(r.row.user_id, r.row.target_user_id)
         g == GREATEST(r.row.user_id, r.row.target_user_id)
     IN tx' = (tx \ {r}) \cup
           {[r EXCEPT !.pc = "checked",
                      !.match_exists = \E m \in matches : m.user1_id = l /\ m.user2_id = g]}
  /\ UNCHANGED <<swipes, matches, response, warned>>
  /\ UNCHANGED nonDbVars

\* trigger lines 45-49: EXCEPTION WHEN OTHERS THEN RAISE WARNING; RETURN NEW
\* (the transactions in flight, the response, the log)
ExceptionHandler_Propagate(r) == <<tx \ {r}, "failed", warned>>
ExceptionHandler(r) == <<(tx \ {r}) \cup {[r EXCEPT !.pc = "returned"]}, response, TRUE>>

\* trigger lines 35-44: IF NOT match_exists THEN INSERT INTO matches; RETURN NEW
TriggerInsertMatch(r) ==
  /\ r.pc = "checked"
  /\ LET l == LEAST(r.row.user_id, r.row.target_user_id)
         g == GREATEST(r.row.user_id, r.row.target_user_id)
     IN IF r.match_exists
          THEN /\ tx' = (tx \ {r}) \cup {[r EXCEPT !.pc = "returned"]}
               /\ UNCHANGED <<response, warned>>
          ELSE IF MatchesCheck(l, g)
                 THEN /\ tx' = (tx \ {r}) \cup
                           {[r EXCEPT !.pc = "returned",
                                      !.newMatch = <<[user1_id |-> l, user2_id |-> g]>>]}
                      /\ UNCHANGED <<response, warned>>
                 ELSE /\ tx' = ExceptionHandler(r)[1]
                      /\ response' = ExceptionHandler(r)[2]
                      /\ warned' = ExceptionHandler(r)[3]
  /\ UNCHANGED <<swipes, matches>>
  /\ UNCHANGED nonDbVars

\* COMMIT: the swipe row and the match row of the trigger become visible together
CommitSwipe(r) ==
  /\ r.pc = "returned"
  /\ swipes' = swipes (+) SetToBag({r.row})
  /\ matches' = matches \cup
        {[id |-> NewMatchId, user1_id |-> m.user1_id, user2_id |-> m.user2_id] :
            m \in {r.newMatch[i] : i \in 1..Len(r.newMatch)}}
  /\ tx' = tx \ {r}
  /\ response' = "committed"
  /\ UNCHANGED warned
  /\ UNCHANGED nonDbVars

\* INSERT INTO matches by an authenticated client:
\* CREATE POLICY "System can create matches" FOR INSERT TO authenticated WITH CHECK (true)
MatchesInsertPolicy(uid, u1, u2) == TRUE

InsertMatchDirect(uid, u1, u2) ==
  /\ Cardinality(matches) < MaxMatchRows
  /\ MatchesInsertPolicy(uid, u1, u2)
  /\ MatchesCheck(u1, u2)
  /\ matches' = matches \cup {[id |-> NewMatchId, user1_id |-> u1, user2_id |-> u2]}
  /\ UNCHANGED <<swipes, tx, response, warned>>
  /\ UNCHANGED nonDbVars

\* ------------------------------------------------------------ table messages
\* the identities of table profiles: the users and one more, who takes no part
\* in a match of two users
Outsider == NUsers + 1
Identities == Users \cup {Outsider}

\* CREATE POLICY "Users can send messages in their matches" FOR INSERT
\* WITH CHECK (auth.uid() = sender_id AND EXISTS (SELECT 1 FROM matches WHERE
\* matches.id = match_id AND (user1_id = auth.uid() OR user2_id = auth.uid())))
MessagesInsertPolicy_SenderOnly(uid, match_id, sender_id) == uid = sender_id
MessagesInsertPolicy(uid, match_id, sender_id) ==
  /\ uid = sender_id
  /\ \E m \in matches : /\ m.id = match_id
                        /\ (m.user1_id = uid \/ m.user2_id = uid)

\* gen_random_uuid() for a message row
NewMessageId == Cardinality(messageRows) + 1

\* INSERT INTO messages (match_id, sender_id, content) by a session
\* authenticated as uid; by is a history field: the identity of the session
InsertMessageRow(uid, match_id, sender_id) ==
  /\ Cardinality(messageRows) < MaxMsgs
  /\ IF MessagesInsertPolicy(uid, match_id, sender_id)
       THEN /\ messageRows' = messageRows \cup
                  {[id |-> NewMessageId, match_id |-> match_id,
                    sender_id |-> sender_id, by |-> uid]}
            /\ msgResponse' = [result |-> "created", uid |-> uid, match_id |-> match_id,
                               rows |-> {}]
       ELSE /\ msgResponse' = [result |-> "denied", uid |-> uid, match_id |-> match_id,
                               rows |-> {}]
            /\ UNCHANGED messageRows
  /\ UNCHANGED <<dbVars, chatVars, sendVars, listVars, limVars, appVars>>

\* ------------------------------------------------------- update and delete
\* row level security is enabled on swipes and on messages and neither table
\* has a policy FOR UPDATE or FOR DELETE: a statement of an authenticated
\* session finds no row that it may update or delete
SwipesUpdatePolicy(uid, row) == FALSE
SwipesDeletePolicy(uid, row) == FALSE
MessagesUpdatePolicy(uid, row) == FALSE
MessagesDeletePolicy_Sender(uid, row) == uid = row.sender_id
MessagesDeletePolicy(uid, row) == FALSE

\* UPDATE swipes SET is_like = l WHERE user_id = u AND target_user_id = v
UpdateSwipes(uid, u, v, l) ==
  LET hit(r) == r.user_id = u /\ r.target_user_id = v /\ SwipesUpdatePolicy(uid, r)
      new(r) == IF hit(r) THEN [r EXCEPT !.is_like = l] ELSE r
  IN /\ swipes' = BagOfAll(new, swipes)
     /\ response' = IF \E r \in BagToSet(swipes) : hit(r) THEN "updated" ELSE "no_rows"
     /\ UNCHANGED <<matches, tx, warned>>
     /\ UNCHANGED nonDbVars

\* DELETE FROM swipes WHERE user_id = u AND target_user_id = v
DeleteSwipes(uid, u, v) ==
  LET hit(r) == r.user_id = u /\ r.target_user_id = v /\ SwipesDeletePolicy(uid, r)
  IN /\ swipes' = [r \in {x \in BagToSet(swipes) : ~hit(x)} |-> swipes[r]]
     /\ response' = IF \E r \in BagToSet(swipes) : hit(r) THEN "deleted" ELSE "no_rows"
     /\ UNCHANGED <<matches, tx, warned>>
     /\ UNCHANGED nonDbVars

\* UPDATE messages SET sender_id = sender_id WHERE id = id
UpdateMessageRow(uid, id, sender_id) ==
  LET hit(r) == r.id = id /\ MessagesUpdatePolicy(uid, r)
  IN /\ messageRows' = {IF hit(r) THEN [r EXCEPT !.sender_id = sender_id] ELSE r :
                           r \in messageRows}
     /\ msgResponse' = [result |-> IF \E r \in messageRows : hit(r)
                                     THEN "updated" ELSE "no_rows",
                        uid |-> uid, match_id |-> 0, rows |-> {}]
     /\ UNCHANGED <<dbVars, chatVars, sendVars, listVars, limVars, appVars>>

\* DELETE FROM messages WHERE id = id
DeleteMessageRow(uid, id) ==
  LET hit(r) == r.id = id /\ MessagesDeletePolicy(uid, r)
  IN /\ messageRows' = {r \in messageRows : ~hit(r)}
     /\ msgResponse' = [result |-> IF \E r \in messageRows : hit(r)
                                     THEN "deleted" ELSE "no_rows",
                        uid |-> uid, match_id |-> 0, rows |-> {}]
     /\ UNCHANGED <<dbVars, chatVars, sendVars, listVars, limVars, appVars>>

\* ------------------------------------------------------------------- Init
InitDb ==
  /\ swipes = EmptyBag
  /\ matches = {}
  /\ tx = {}
  /\ response = "none"
  /\ warned = FALSE

InitChat ==
  /\ dbMessages = <<>>
  /\ messages = <<>>
  /\ loading = TRUE
  /\ fetch = "none"
  /\ fetchData = <<>>
  /\ channel = "none"
  /\ feed = <<>>
  /\ timers = 0
  /\ openChannels = 0
  /\ stale = {}
  /\ reruns = 0

InitMessages ==
  /\ messageRows = {}
  /\ msgResponse = [result |-> "none", uid |-> 0, match_id |-> 0, rows |-> {}]

InitSend ==
  /\ newMessage = [lead |-> 0, core |-> 0, trail |-> 0]
  /\ sending = FALSE
  /\ insert = "none"
  /\ pending = [lead |-> 0, core |-> 0, trail |-> 0]
  /\ sendResult = "none"
  /\ limits = <<>>
  /\ now = 0
  /\ captured = 0
  /\ alert = "none"

InitList ==
  /\ listPc = "unmounted"
  /\ listData = <<>>
  /\ listMsgs = <<>>
  /\ listTable = {}
  /\ roundTrips = 0
  /\ matchList = <<>>
  /\ listLoading = TRUE

\* no call was made on rateLimiter; the Login screen is idle
InitLimiter ==
  /\ calls = <<>>
  /\ login = [loading |-> FALSE, request |-> "none", email |-> "", signIns |-> 0]

\* the user of the Matches screen: participant user2_id of a match with a
\* lesser identity and user1_id of a match with the outsider
Viewer == NUsers

\* AuthProvider after getSession resolved with the session of uid and no
\* event followed: session as useState session (0 is null, else the id of
\* session.user), client as the session the auth client holds
SignedIn(uid) ==
  [session |-> uid, loading |-> FALSE, getSession |-> "done", result |-> uid,
   client |-> uid, events |-> 0, last |-> 0]

\* the Discover screen before it mounts: useState profiles ([]), currentIndex
\* (0), loading (true), swiping (false); swipePc, target and isLike are the
\* insert request of handleSwipe, fetchPc, swipedIds and data the queries of
\* fetchProfiles; result and swipedAtFetch are history: the branch the last
\* call of handleSwipe took, and the targets the user had swiped when
\* fetchProfiles was called last
NotMounted ==
  [profiles |-> <<>>, currentIndex |-> 0, loading |-> TRUE, swiping |-> FALSE,
   swipePc |-> "none", target |-> 0, isLike |-> FALSE,
   fetchPc |-> "unmounted", swipedIds |-> {}, data |-> <<>>,
   result |-> "none", swipedAtFetch |-> {}]

\* the Chat screen is routed to the match with id 1; the user is signed in;
\* the Discover screen is not mounted
InitApp ==
  /\ chatId = 1
  /\ auth = SignedIn(Viewer)
  /\ discover = NotMounted

Init ==
  /\ InitDb /\ InitChat /\ InitMessages /\ InitSend /\ InitList /\ InitLimiter /\ InitApp

\* ------------------------------------------------------------ chat session
\* ids of a list of messages
Ids(list) == {list[i] : i \in 1..Len(list)}

\* useEffect: fetchMessages() starts (setLoading(true), query sent) and the
\* channel is created and subscribe() sent
Mount ==
  /\ fetch = "none" /\ channel = "none"
  /\ loading' = TRUE
  /\ fetch' = "sent"
  /\ channel' = "joining"
  /\ openChannels' = openChannels + 1
  /\ UNCHANGED <<dbMessages, messages, fetchData, feed, timers, stale, reruns>>
  /\ UNCHANGED nonChatVars

\* the data store runs the messages query: the rows committed now, by created_at
ServerQuery ==
  /\ fetch = "sent"
  /\ fetchData' = dbMessages
  /\ fetch' = "replied"
  /\ UNCHANGED <<dbMessages, messages, loading, channel, feed, timers>>
  /\ UNCHANGED nonChatVars
  /\ UNCHANGED <<openChannels, stale, reruns>>

\* the messages query fails: data is null
ServerQueryError ==
  /\ fetch = "sent"
  /\ fetch' = "error"
  /\ UNCHANGED <<dbMessages, messages, loading, fetchData, channel, feed, timers>>
  /\ UNCHANGED nonChatVars
  /\ UNCHANGED <<openChannels, stale, reruns>>

\* fetchMessages resumes after the await: if (data) setMessages(data); setLoading(false)
FetchReturn ==
  /\ fetch \in {"replied", "error"}
  /\ messages' = IF fetch = "replied" THEN fetchData ELSE messages
  /\ loading' = FALSE
  /\ fetch' = IF fetch = "replied" THEN "done" ELSE "failed"
  /\ UNCHANGED <<dbMessages, fetchData, channel, feed, timers>>
  /\ UNCHANGED nonChatVars
  /\ UNCHANGED <<openChannels, stale, reruns>>

\* the realtime server registers the subscription of the channel
ServerJoin ==
  /\ channel = "joining"
  /\ channel' = "joined"
  /\ UNCHANGED <<dbMessages, messages, loading, fetch, fetchData, feed, timers>>
  /\ UNCHANGED nonChatVars
  /\ UNCHANGED <<openChannels, stale, reruns>>

\* a participant's message row commits; the feed queues its insert event for
\* the subscription if it is registered
InsertMessage ==
  /\ Len(dbMessages) < MaxMsgs
  /\ LET id == Len(dbMessages) + 1 IN
       /\ dbMessages' = Append(dbMessages, id)
       /\ feed' = IF channel = "joined" THEN Append(feed, id) ELSE feed
  /\ UNCHANGED <<messages, loading, fetch, fetchData, channel, timers>>
  /\ UNCHANGED nonChatVars
  /\ UNCHANGED <<openChannels, stale, reruns>>

\* a participant's message row commits after the row of a transaction that
\* began later: created_at is now(), the time its own transaction began, so
\* the row stands before that row in created_at order, while the feed queues
\* the insert events in commit order
InsertMessageOvertaken ==
  /\ Len(dbMessages) < MaxMsgs
  /\ dbMessages # <<>>
  /\ LET id == Len(dbMessages) + 1
         n == Len(dbMessages) IN
       /\ dbMessages' = SubSeq(dbMessages, 1, n - 1) \o <<id, dbMessages[n]>>
       /\ feed' = IF channel = "joined" THEN Append(feed, id) ELSE feed
  /\ UNCHANGED <<messages, loading, fetch, fetchData, channel, timers>>
  /\ UNCHANGED nonChatVars
  /\ UNCHANGED <<openChannels, stale, reruns>>

\* the updater of the INSERT handler
OnInsert_NoDedup(prev, newMsg) == Append(prev, newMsg)
OnInsert(prev, newMsg) ==
  IF \E i \in 1..Len(prev) : prev[i] = newMsg THEN prev ELSE Append(prev, newMsg)

\* the channel delivers the next event to the handler
DeliverEvent ==
  /\ channel = "joined"
  /\ feed # <<>>
  /\ messages' = OnInsert(messages, Head(feed))
  /\ feed' = Tail(feed)
  /\ timers' = timers + 1
  /\ UNCHANGED <<dbMessages, loading, fetch, fetchData, channel>>
  /\ UNCHANGED nonChatVars
  /\ UNCHANGED <<openChannels, stale, reruns>>

\* a setTimeout callback of the handler runs scrollToEnd
ScrollTimer ==
  /\ timers > 0
  /\ timers' = timers - 1
  /\ UNCHANGED <<dbMessages, messages, loading, fetch, fetchData, channel, feed>>
  /\ UNCHANGED nonChatVars
  /\ UNCHANGED <<openChannels, stale, reruns>>

\* supabase.removeChannel(channel): the channels the client holds afterwards
RemoveChannel_Leak(n) == n
RemoveChannel(n) == n - 1

\* cleanup of the effect: supabase.removeChannel(channel)
Unmount ==
  /\ channel \in {"joining", "joined"}
  /\ channel' = "removed"
  /\ openChannels' = RemoveChannel(openChannels)
  /\ feed' = <<>>
  /\ UNCHANGED <<dbMessages, messages, loading, fetch, fetchData, timers, stale, reruns>>
  /\ UNCHANGED nonChatVars

\* a dependency of the effect changes while the session is mounted (the
\* AuthProvider hands out a new user object on every auth event): the cleanup
\* removes the channel, then the effect runs again: fetchMessages() starts
\* and a new channel is created.  A call of fetchMessages that is still in
\* flight stays in flight.
Rerun ==
  /\ channel \in {"joining", "joined"}
  /\ reruns < MaxReruns
  /\ reruns' = reruns + 1
  /\ openChannels' = RemoveChannel(openChannels) + 1
  /\ channel' = "joining"
  /\ feed' = <<>>
  /\ loading' = TRUE
  /\ stale' = IF fetch \in {"sent", "replied", "error"}
                THEN stale \cup {[n |-> reruns, pc |-> fetch, data |-> fetchData]}
                ELSE stale
  /\ fetch' = "sent"
  /\ UNCHANGED <<dbMessages, messages, fetchData, timers>>
  /\ UNCHANGED nonChatVars

\* the data store runs the query of an earlier call of fetchMessages
StaleServerQuery(f) ==
  /\ f.pc = "sent"
  /\ stale' = (stale \ {f}) \cup {[f EXCEPT !.pc = "replied", !.data = dbMessages]}
  /\ UNCHANGED <<dbMessages, messages, loading, fetch, fetchData, channel, feed, timers,
                 openChannels, reruns>>
  /\ UNCHANGED nonChatVars

\* the query of an earlier call of fetchMessages fails
StaleServerQueryError(f) ==
  /\ f.pc = "sent"
  /\ stale' = (stale \ {f}) \cup {[f EXCEPT !.pc = "error"]}
  /\ UNCHANGED <<dbMessages, messages, loading, fetch, fetchData, channel, feed, timers,
                 openChannels, reruns>>
  /\ UNCHANGED nonChatVars

\* an earlier call of fetchMessages resumes after its await
StaleFetchReturn(f) ==
  /\ f.pc \in {"replied", "error"}
  /\ messages' = IF f.pc = "replied" THEN f.data ELSE messages
  /\ loading' = FALSE
  /\ stale' = stale \ {f}
  /\ UNCHANGED <<dbMessages, fetch, fetchData, channel, feed, timers, openChannels, reruns>>
  /\ UNCHANGED nonChatVars

\* --------------------------------------------------- chat route parameter
\* the match ids a Chat screen is routed to
RouteIds == {1, 2}

\* the elements of a set of numbers, ascending
RECURSIVE Ascending(_)
Ascending(S) ==
  IF S = {} THEN <<>>
  ELSE LET least == CHOOSE x \in S : \A y \in S : x <= y
       IN <<least>> \o Ascending(S \ {least})

\* .from('messages').select('*').eq('match_id', id).order('created_at',
\* { ascending: true }) on the rows committed now (ids grow with created_at)
MessagesOf(id) == Ascending({row.id : row \in {r \in messageRows : r.match_id = id}})

\* a participant's message row of match mid commits; the feed queues its
\* insert event for the subscription if it is registered and its filter
\* match_id=eq.${id} admits the row
InsertMessageOf(mid) ==
  /\ Cardinality(messageRows) < MaxMsgs
  /\ messageRows' = messageRows \cup
        {[id |-> NewMessageId, match_id |-> mid, sender_id |-> 1, by |-> 1]}
  /\ feed' = IF channel = "joined" /\ mid = chatId THEN Append(feed, NewMessageId) ELSE feed
  /\ UNCHANGED <<dbMessages, messages, loading, fetch, fetchData, channel, timers,
                 openChannels, stale, reruns>>
  /\ UNCHANGED <<msgResponse, dbVars, sendVars, listVars, limVars, appVars>>

\* the data store runs the messages query of the current run of the effect
ServerQueryOfId ==
  /\ fetch = "sent"
  /\ fetchData' = MessagesOf(chatId)
  /\ fetch' = "replied"
  /\ UNCHANGED <<dbMessages, messages, loading, channel, feed, timers>>
  /\ UNCHANGED nonChatVars
  /\ UNCHANGED <<openChannels, stale, reruns>>

\* the route parameter id changes while the session is mounted (dependency id
\* of the effect): the cleanup removes the channel, then the effect runs again
\* with the new id: fetchMessages() starts and a new channel is created.  A
\* call of fetchMessages that is still in flight stays in flight with the id
\* it was called under.
ChangeId(id) ==
  /\ channel \in {"joining", "joined"}
  /\ id # chatId
  /\ reruns < MaxReruns
  /\ reruns' = reruns + 1
  /\ chatId' = id
  /\ openChannels' = RemoveChannel(openChannels) + 1
  /\ channel' = "joining"
  /\ feed' = <<>>
  /\ loading' = TRUE
  /\ stale' = IF fetch \in {"sent", "replied", "error"}
                THEN stale \cup {[n |-> reruns, pc |-> fetch, data |-> fetchData,
                                  id |-> chatId]}
                ELSE stale
  /\ fetch' = "sent"
  /\ UNCHANGED <<dbMessages, messages, fetchData, timers>>
  /\ UNCHANGED <<dbVars, msgVars, sendVars, listVars, limVars, auth, discover>>

\* the data store runs the query of an earlier call of fetchMessages, made
\* under the id f.id
StaleServerQueryOfId(f) ==
  /\ f.pc = "sent"
  /\ stale' = (stale \ {f}) \cup {[f EXCEPT !.pc = "replied", !.data = MessagesOf(f.id)]}
  /\ UNCHANGED <<dbMessages, messages, loading, fetch, fetchData, channel, feed, timers,
                 openChannels, reruns>>
  /\ UNCHANGED nonChatVars

\* ------------------------------------------------------------ rate limiter
\* export const RATE_LIMITS
RATE_LIMITS ==
  [LOGIN |-> [maxAttempts |-> 5, windowMs |-> 15 * 60 * 1000],
   SIGNUP |-> [maxAttempts |-> 3, windowMs |-> 60 * 60 * 1000],
   MESSAGE |-> [maxAttempts |-> 30, windowMs |-> 60 * 1000],
   SWIPE |-> [maxAttempts |-> 100, windowMs |-> 60 * 1000],
   PROFILE_UPDATE |-> [maxAttempts |-> 10, windowMs |-> 60 * 1000],
   IMAGE_UPLOAD |-> [maxAttempts |-> 5, windowMs |-> 5 * 60 * 1000]]

\* Math.ceil(ms / 1000) for ms >= 0
CeilSeconds(ms) == (ms + 999) \div 1000

\* Map.delete(key)
MapDelete(m, key) == [k \in (DOMAIN m) \ {key} |-> m[k]]
\* Map.set(key, value)
MapSet(m, key, value) == [k \in (DOMAIN m) \cup {key} |-> IF k = key THEN value ELSE m[k]]

\* RateLimiter.check(key, config) at time t on the map m: the result and the
\* map it leaves (retryAfter is 0 where the code leaves it undefined)
RateLimiterCheck_ExtendOnDeny(m, key, config, t) ==
  LET cleaned == IF key \in DOMAIN m /\ t >= m[key].resetTime THEN MapDelete(m, key) ELSE m
  IN IF key \notin DOMAIN cleaned
       THEN [allowed |-> TRUE, retryAfter |-> 0,
             limits |-> MapSet(cleaned, key, [count |-> 1, resetTime |-> t + config.windowMs])]
       ELSE IF cleaned[key].count >= config.maxAttempts
              THEN [allowed |-> FALSE,
                    retryAfter |-> CeilSeconds(cleaned[key].resetTime - t),
                    limits |-> [cleaned EXCEPT ![key].resetTime = t + config.windowMs]]
              ELSE [allowed |-> TRUE, retryAfter |-> 0,
                    limits |-> [cleaned EXCEPT ![key].count = @ + 1]]
RateLimiterCheck_StrictExpiry(m, key, config, t) ==
  LET cleaned == IF key \in DOMAIN m /\ t > m[key].resetTime THEN MapDelete(m, key) ELSE m
  IN IF key \notin DOMAIN cleaned
       THEN [allowed |-> TRUE, retryAfter |-> 0,
             limits |-> MapSet(cleaned, key, [count |-> 1, resetTime |-> t + config.windowMs])]
       ELSE IF cleaned[key].count >= config.maxAttempts
              THEN [allowed |-> FALSE,
                    retryAfter |-> CeilSeconds(cleaned[key].resetTime - t),
                    limits |-> cleaned]
              ELSE [allowed |-> TRUE, retryAfter |-> 0,
                    limits |-> [cleaned EXCEPT ![key].count = @ + 1]]
RateLimiterCheck_NoLimit(m, key, config, t) ==
  LET cleaned == IF key \in DOMAIN m /\ t >= m[key].resetTime THEN MapDelete(m, key) ELSE m
  IN IF key \notin DOMAIN cleaned
       THEN [allowed |-> TRUE, retryAfter |-> 0,
             limits |-> MapSet(cleaned, key, [count |-> 1, resetTime |-> t + config.windowMs])]
       ELSE [allowed |-> TRUE, retryAfter |-> 0,
             limits |-> [cleaned EXCEPT ![key].count = @ + 1]]
RateLimiterCheck(m, key, config, t) ==
  LET cleaned == IF key \in DOMAIN m /\ t >= m[key].resetTime THEN MapDelete(m, key) ELSE m
  IN IF key \notin DOMAIN cleaned
       THEN [allowed |-> TRUE, retryAfter |-> 0,
             limits |-> MapSet(cleaned, key, [count |-> 1, resetTime |-> t + config.windowMs])]
       ELSE IF cleaned[key].count >= config.maxAttempts
              THEN [allowed |-> FALSE,
                    retryAfter |-> CeilSeconds(cleaned[key].resetTime - t),
                    limits |-> cleaned]
              ELSE [allowed |-> TRUE, retryAfter |-> 0,
                    limits |-> [cleaned EXCEPT ![key].count = @ + 1]]

\* the clock advances by half a MESSAGE window
TickMs == RATE_LIMITS.MESSAGE.windowMs \div 2
Tick ==
  /\ now < MaxTicks * TickMs
  /\ now' = now + TickMs
  /\ UNCHANGED <<newMessage, sending, insert, pending, sendResult, limits, captured, alert>>
  /\ UNCHANGED <<dbVars, chatVars, msgVars, listVars, limVars, appVars>>

\* --------------------------------------------------------------- chat send
\* a text is [lead, core, trail]: lead whitespace characters, then core
\* characters from the first to the last one that is not whitespace, then
\* trail whitespace characters (a text of whitespace only has core = trail = 0)
Text(lead, core, trail) == [lead |-> lead, core |-> core, trail |-> trail]
EmptyText == Text(0, 0, 0)
Length(t) == t.lead + t.core + t.trail
\* String.prototype.trim()
Trim(t) == Text(0, t.core, 0)

\* messageSchema: content: z.string().min(1).max(500); match_id is the uuid of
\* the route of the session
MessageMaxLength == 500
messageSchema_NoMax(content) == Length(content) >= 1
messageSchema(content) == Length(content) >= 1 /\ Length(content) <= MessageMaxLength

\* the values of the input field that are told apart: empty, whitespace only,
\* short, short inside whitespace, of the greatest valid length alone and
\* after a space, and one character too long.  sendMessage is modelled for
\* every one of them, also for those the props of the TextInput (maxLength)
\* and of the send button (disabled) keep a user from submitting.
Texts ==
  {EmptyText, Text(1, 0, 0), Text(0, 1, 0), Text(1, 1, 1),
   Text(0, MessageMaxLength, 0), Text(1, MessageMaxLength, 0),
   Text(0, MessageMaxLength + 1, 0)}

\* the key of the rate budget of the session's user
MessageKey == "message:user"

\* the session is mounted: its effect ran and its cleanup did not
Mounted == channel \in {"joining", "joined"}

\* TextInput onChangeText={setNewMessage}
OnChangeText(text) ==
  /\ Mounted
  /\ newMessage' = text
  /\ UNCHANGED <<sending, insert, pending, sendResult, limits, now, captured, alert>>
  /\ UNCHANGED <<dbVars, chatVars, msgVars, listVars, limVars, appVars>>

\* if (!user || sending) return: the test of the sending flag (the session
\* has a user)
SendingGuard_Off(flag) == FALSE
SendingGuard(flag) == flag

\* if (!validation.success) return: the return stands before the call of
\* rateLimiter.check, so the map stays m (rateLimit is what the check would give)
ValidationReturn_AfterCheck(m, rateLimit) == rateLimit.limits
ValidationReturn(m, rateLimit) == m

\* sendMessage up to its await (lines 123-157).  The user sends no more once
\* MaxMsgs rows are stored or MaxReports failures are reported.
SendMessage ==
  /\ Mounted
  /\ Len(dbMessages) < MaxMsgs
  /\ captured < MaxReports
  /\ LET content == Trim(newMessage)
         rateLimit == RateLimiterCheck(limits, MessageKey, RATE_LIMITS.MESSAGE, now)
     IN IF SendingGuard(sending)
          THEN /\ sendResult' = "busy"
               /\ UNCHANGED <<newMessage, sending, insert, pending, limits>>
          ELSE IF Length(content) = 0
          THEN /\ sendResult' = "empty"
               /\ UNCHANGED <<newMessage, sending, insert, pending, limits>>
          ELSE IF ~messageSchema(content)
          THEN /\ sendResult' = "invalid"
               /\ limits' = ValidationReturn(limits, rateLimit)
               /\ UNCHANGED <<newMessage, sending, insert, pending>>
          ELSE IF ~rateLimit.allowed
          THEN /\ sendResult' = "limited"
               /\ limits' = rateLimit.limits
               /\ UNCHANGED <<newMessage, sending, insert, pending>>
          ELSE /\ sendResult' = "issued"
               /\ limits' = rateLimit.limits
               /\ newMessage' = EmptyText
               /\ sending' = TRUE
               /\ insert' = "sent"
               /\ pending' = content
  /\ UNCHANGED <<now, captured, alert>>
  /\ UNCHANGED <<dbVars, chatVars, msgVars, listVars, limVars, appVars>>

\* the data store commits the row of the insert request; the feed queues its
\* insert event for the subscription if it is registered
ServerInsertOk ==
  /\ insert = "sent"
  /\ Len(dbMessages) < MaxMsgs
  /\ LET id == Len(dbMessages) + 1 IN
       /\ dbMessages' = Append(dbMessages, id)
       /\ feed' = IF channel = "joined" THEN Append(feed, id) ELSE feed
  /\ insert' = "ok"
  /\ UNCHANGED <<messages, loading, fetch, fetchData, channel, timers>>
  /\ UNCHANGED <<newMessage, sending, pending, sendResult, limits, now, captured, alert>>
  /\ UNCHANGED <<dbVars, msgVars, listVars, limVars, appVars>>
  /\ UNCHANGED <<openChannels, stale, reruns>>

\* the insert request fails (policy, constraint, network): error is set
ServerInsertError ==
  /\ insert = "sent"
  /\ insert' = "error"
  /\ UNCHANGED <<newMessage, sending, pending, sendResult, limits, now, captured, alert>>
  /\ UNCHANGED <<dbVars, chatVars, msgVars, listVars, limVars, appVars>>

\* catch block of sendMessage: captureException(error), setNewMessage(content)
\* (the input text, the number of captured exceptions)
SendCatch_NoRestore(content) == <<newMessage, captured + 1>>
SendCatch(content) == <<content, captured + 1>>

\* finally block of sendMessage: setSending(false); failed tells whether the
\* catch block ran
SendFinally_OnSuccessOnly(failed) == failed
SendFinally(failed) == FALSE

\* sendMessage resumes after the await (lines 159-166)
SendReturn ==
  /\ insert \in {"ok", "error"}
  /\ IF insert = "error"
       THEN /\ newMessage' = SendCatch(pending)[1]
            /\ captured' = SendCatch(pending)[2]
       ELSE UNCHANGED <<newMessage, captured>>
  /\ sending' = SendFinally(insert = "error")
  /\ insert' = "none"
  /\ pending' = EmptyText
  /\ UNCHANGED <<sendResult, limits, now, alert>>
  /\ UNCHANGED <<dbVars, chatVars, msgVars, listVars, limVars, appVars>>

\* ---------------------------------------------------------- limiter calls
\* RateLimiter.reset(key) and RateLimiter.clear() on the map m
RateLimiterReset_Keep(m, key) == m
RateLimiterReset(m, key) == MapDelete(m, key)
RateLimiterClear(m) == <<>>

\* a record of the history: n calls in a row of op(key, config) at time t
\* with the same outcome; opened tells that check took its first-attempt
\* branch and stored a new entry
CallRecord(op, key, config, t, allowed, retryAfter, opened, n) ==
  [op |-> op, key |-> key, config |-> config, t |-> t, allowed |-> allowed,
   retryAfter |-> retryAfter, opened |-> opened, n |-> n]

\* check(key, config) is about to take its first-attempt branch on map m at time t
OpensWindow(m, key, t) == key \notin DOMAIN m \/ t >= m[key].resetTime

\* the history after one more call of check(key, config)
LogCheck(key, config) ==
  LET result == RateLimiterCheck(limits, key, config, now)
  IN Append(calls, CallRecord("check", key, config, now, result.allowed, result.retryAfter,
                              OpensWindow(limits, key, now), 1))

\* the history after a call of reset(key) or clear() (key "")
NoConfig == [maxAttempts |-> 0, windowMs |-> 0]
LogDelete(op, key) ==
  Append(calls, CallRecord(op, key, NoConfig, now, TRUE, 0, FALSE, 1))

\* the texts typed into the email field that are told apart: two addresses
\* and a text that z.string().email() rejects
Emails == {"a@example.com", "b@example.com"}
EmailTexts == Emails \cup {"not-an-email"}

\* `login:${email}`
LoginKey(email) == "login:" \o email

\* the keys the screens use, each with the config it is checked against
Callers ==
  {<<MessageKey, RATE_LIMITS.MESSAGE>>, <<LoginKey("a@example.com"), RATE_LIMITS.LOGIN>>}

\* some caller calls rateLimiter.check(key, config)
Check(key, config) ==
  /\ Len(calls) < MaxCalls
  /\ limits' = RateLimiterCheck(limits, key, config, now).limits
  /\ calls' = LogCheck(key, config)
  /\ UNCHANGED <<newMessage, sending, insert, pending, sendResult, now, captured, alert, login>>
  /\ UNCHANGED <<dbVars, chatVars, msgVars, listVars, appVars>>

\* some caller calls rateLimiter.reset(key) for a key it has checked
Reset(key) ==
  /\ Len(calls) < MaxCalls
  /\ key \in DOMAIN limits
  /\ limits' = RateLimiterReset(limits, key)
  /\ calls' = LogDelete("reset", key)
  /\ UNCHANGED <<newMessage, sending, insert, pending, sendResult, now, captured, alert, login>>
  /\ UNCHANGED <<dbVars, chatVars, msgVars, listVars, appVars>>

\* some caller calls rateLimiter.clear()
Clear ==
  /\ Len(calls) < MaxCalls
  /\ limits # <<>>
  /\ limits' = RateLimiterClear(limits)
  /\ calls' = LogDelete("clear", "")
  /\ UNCHANGED <<newMessage, sending, insert, pending, sendResult, now, captured, alert, login>>
  /\ UNCHANGED <<dbVars, chatVars, msgVars, listVars, appVars>>

\* ------------------------------------------------------------------- login
\* loginSchema: email: z.string().email(), password: z.string().min(6); a
\* password is told by its length
PasswordMinLength == 6
loginSchema(email, password) == email \in Emails /\ password >= PasswordMinLength
Passwords == {PasswordMinLength - 1, PasswordMinLength}

\* handleLogin up to its await (lines 542-565); the button is disabled while
\* loading is set
HandleLogin(email, password) ==
  /\ ~login.loading
  /\ Len(calls) < MaxCalls
  /\ LET rateLimit == RateLimiterCheck(limits, LoginKey(email), RATE_LIMITS.LOGIN, now)
     IN IF ~loginSchema(email, password)
          THEN /\ alert' = "Validation Error"
               /\ UNCHANGED <<limits, calls, login>>
          ELSE IF ~rateLimit.allowed
          THEN /\ alert' = "Too Many Attempts"
               /\ limits' = rateLimit.limits
               /\ calls' = LogCheck(LoginKey(email), RATE_LIMITS.LOGIN)
               /\ UNCHANGED login
          ELSE /\ limits' = rateLimit.limits
               /\ calls' = LogCheck(LoginKey(email), RATE_LIMITS.LOGIN)
               /\ login' = [loading |-> TRUE, request |-> "sent", email |-> email,
                            signIns |-> login.signIns + 1]
               /\ UNCHANGED alert
  /\ UNCHANGED <<newMessage, sending, insert, pending, sendResult, now, captured>>
  /\ UNCHANGED <<dbVars, chatVars, msgVars, listVars, appVars>>

\* supabase.auth.signInWithPassword settles with data.user
SignInOk ==
  /\ login.request = "sent"
  /\ login' = [login EXCEPT !.request = "ok"]
  /\ UNCHANGED <<sendVars, calls>>
  /\ UNCHANGED <<dbVars, chatVars, msgVars, listVars, appVars>>

\* supabase.auth.signInWithPassword settles with error
SignInError ==
  /\ login.request = "sent"
  /\ login' = [login EXCEPT !.request = "error"]
  /\ UNCHANGED <<sendVars, calls>>
  /\ UNCHANGED <<dbVars, chatVars, msgVars, listVars, appVars>>

\* handleLogin resumes after the await (lines 567-605): on error it reports
\* and alerts; on success it reads the profile, navigates (neither touches
\* the state kept here) and resets the key; finally setLoading(false)
LoginReturn ==
  /\ login.request \in {"ok", "error"}
  /\ IF login.request = "error"
       THEN /\ captured' = captured + 1
            /\ alert' = "Login Failed"
            /\ UNCHANGED <<limits, calls>>
       ELSE /\ limits' = RateLimiterReset(limits, LoginKey(login.email))
            /\ calls' = LogDelete("reset", LoginKey(login.email))
            /\ UNCHANGED <<captured, alert>>
  /\ login' = [login EXCEPT !.loading = FALSE, !.request = "none"]
  /\ UNCHANGED <<newMessage, sending, insert, pending, sendResult, now>>
  /\ UNCHANGED <<dbVars, chatVars, msgVars, listVars, appVars>>

\* ------------------------------------------------------------ matches list
\* rows in descending order of created_at (ids are handed out in that order)
RECURSIVE OrderDesc(_)
OrderDesc(rows) ==
  IF rows = {} THEN <<>>
  ELSE LET newest == CHOOSE x \in rows : \A y \in rows : y.id <= x.id
       IN <<newest>> \o OrderDesc(rows \ {newest})

\* supabase.from('matches').select(..., profile1, profile2)
\*   .or(user1_id.eq.uid, user2_id.eq.uid).order('created_at', desc)
MatchesQuery_All(uid) ==
  OrderDesc({[id |-> m.id, user1_id |-> m.user1_id, user2_id |-> m.user2_id,
              profile1 |-> m.user1_id, profile2 |-> m.user2_id] : m \in matches})
MatchesQuery(uid) ==
  OrderDesc({[id |-> m.id, user1_id |-> m.user1_id, user2_id |-> m.user2_id,
              profile1 |-> m.user1_id, profile2 |-> m.user2_id] :
                m \in {x \in matches : x.user1_id = uid \/ x.user2_id = uid}})

\* CREATE POLICY "Users can view messages in their matches" FOR SELECT
MessagesSelectPolicy_Authenticated(uid, row) == TRUE
MessagesSelectPolicy(uid, row) ==
  \E m \in matches : /\ m.id = row.match_id
                     /\ (m.user1_id = uid \/ m.user2_id = uid)

\* SELECT * FROM messages WHERE match_id = match_id by a session
\* authenticated as uid
SelectMessages(uid, match_id) ==
  /\ msgResponse' = [result |-> "selected", uid |-> uid, match_id |-> match_id,
                     rows |-> {row \in messageRows : /\ row.match_id = match_id
                                                     /\ MessagesSelectPolicy(uid, row)}]
  /\ UNCHANGED messageRows
  /\ UNCHANGED <<dbVars, chatVars, sendVars, listVars, limVars, appVars>>

\* supabase.from('messages').select('match_id, content, created_at, sender_id')
\*   .in('match_id', matchIds).order('created_at', desc)
MessagesQuery(uid, matchIds) ==
  OrderDesc({row \in messageRows : row.match_id \in matchIds /\ MessagesSelectPolicy(uid, row)})

\* data.find(m => m.id === id): the first row with the id, or <<>> for undefined
Find(data, id) ==
  IF \E i \in 1..Len(data) : data[i].id = id
    THEN <<data[CHOOSE i \in 1..Len(data) :
                  data[i].id = id /\ \A j \in 1..(i - 1) : data[j].id # id]>>
    ELSE <<>>

\* match.user1_id === user.id ? match.user2_id : match.user1_id
OtherUserId(match, uid) == IF match.user1_id = uid THEN match.user2_id ELSE match.user1_id

\* the forEach over messagesData from element i on: the Maps messagesByMatch
\* and unreadCountByMatch
RECURSIVE GroupMessages(_, _, _, _, _)
GroupMessages(msgs, i, data, uid, maps) ==
  IF i > Len(msgs) THEN maps
  ELSE LET msg == msgs[i]
           byMatch == IF msg.match_id \in DOMAIN maps.messagesByMatch
                        THEN maps.messagesByMatch
                        ELSE MapSet(maps.messagesByMatch, msg.match_id, msg)
           match == Find(data, msg.match_id)
           counted == match # <<>> /\ msg.sender_id = OtherUserId(match[1], uid)
           current == IF msg.match_id \in DOMAIN maps.unreadCountByMatch
                        THEN maps.unreadCountByMatch[msg.match_id] ELSE 0
           unread == IF counted
                       THEN MapSet(maps.unreadCountByMatch, msg.match_id, current + 1)
                       ELSE maps.unreadCountByMatch
       IN GroupMessages(msgs, i + 1, data, uid,
                        [messagesByMatch |-> byMatch, unreadCountByMatch |-> unread])

\* data.map(...): the entries of the list; lastMessage is the id of the
\* message, 0 for undefined
MatchesWithProfiles(data, msgs, uid) ==
  LET maps == GroupMessages(msgs, 1, data, uid,
                            [messagesByMatch |-> <<>>, unreadCountByMatch |-> <<>>])
  IN [i \in 1..Len(data) |->
        LET match == data[i] IN
        [id |-> match.id, user1_id |-> match.user1_id, user2_id |-> match.user2_id,
         profile |-> IF match.user1_id = uid THEN match.profile2 ELSE match.profile1,
         lastMessage |-> IF match.id \in DOMAIN maps.messagesByMatch
                           THEN maps.messagesByMatch[match.id].id ELSE 0,
         unreadCount |-> IF match.id \in DOMAIN maps.unreadCountByMatch
                           THEN maps.unreadCountByMatch[match.id] ELSE 0]]

\* fetchMatches lines 48-62: if (!user) return; setLoading(true) and the
\* matches query
FetchMatchesStart ==
  /\ IF auth.session = 0
       THEN /\ listPc' = "idle"
            /\ roundTrips' = 0
            /\ UNCHANGED listLoading
       ELSE /\ listLoading' = TRUE
            /\ listPc' = "matches_sent"
            /\ roundTrips' = 1
  /\ UNCHANGED <<listData, listMsgs, listTable, matchList>>
  /\ UNCHANGED <<dbVars, chatVars, msgVars, sendVars, limVars, appVars>>

\* useEffect(() => { fetchMatches(); }, [])
MountMatches ==
  /\ listPc = "unmounted"
  /\ FetchMatchesStart

\* pull to refresh: the FlatList is rendered when loading is false and the
\* list is not empty
OnRefresh ==
  /\ listPc = "idle" /\ ~listLoading /\ Len(matchList) > 0
  /\ FetchMatchesStart

\* the data store runs the matches query
ServerMatchesQuery ==
  /\ listPc = "matches_sent"
  /\ listData' = MatchesQuery(Viewer)
  /\ listPc' = "matches_ok"
  /\ UNCHANGED <<listMsgs, listTable, roundTrips, matchList, listLoading>>
  /\ UNCHANGED <<dbVars, chatVars, msgVars, sendVars, limVars, appVars>>

\* the matches query fails: error is set
ServerMatchesError ==
  /\ listPc = "matches_sent"
  /\ listPc' = "matches_err"
  /\ UNCHANGED <<listData, listMsgs, listTable, roundTrips, matchList, listLoading>>
  /\ UNCHANGED <<dbVars, chatVars, msgVars, sendVars, limVars, appVars>>

\* the number of queries that fetch the messages of the matches in data
MessagesQueryTrips_PerMatch(data) == Len(data)
MessagesQueryTrips(data) == 1

\* fetchMatches resumes after the matches query (lines 64-74): throw into
\* catch and finally, or the messages query
FetchMatchesContinue ==
  /\ listPc \in {"matches_ok", "matches_err"}
  /\ IF listPc = "matches_err"
       THEN /\ listLoading' = FALSE
            /\ listPc' = "idle"
            /\ UNCHANGED roundTrips
       ELSE /\ listPc' = "messages_sent"
            /\ roundTrips' = roundTrips + MessagesQueryTrips(listData)
            /\ UNCHANGED listLoading
  /\ UNCHANGED <<listData, listMsgs, listTable, matchList>>
  /\ UNCHANGED <<dbVars, chatVars, msgVars, sendVars, limVars, appVars>>

\* the data store runs the messages query
ServerMessagesQuery ==
  /\ listPc = "messages_sent"
  /\ listMsgs' = MessagesQuery(Viewer, {listData[i].id : i \in 1..Len(listData)})
  /\ listTable' = messageRows
  /\ listPc' = "messages_ok"
  /\ UNCHANGED <<listData, roundTrips, matchList, listLoading>>
  /\ UNCHANGED <<dbVars, chatVars, msgVars, sendVars, limVars, appVars>>

\* the messages query fails: messagesData is null and messagesData?.forEach
\* runs over nothing (the error is not read)
ServerMessagesError ==
  /\ listPc = "messages_sent"
  /\ listMsgs' = <<>>
  /\ listTable' = messageRows
  /\ listPc' = "messages_err"
  /\ UNCHANGED <<listData, roundTrips, matchList, listLoading>>
  /\ UNCHANGED <<dbVars, chatVars, msgVars, sendVars, limVars, appVars>>

\* fetchMatches resumes after the messages query (lines 76-122)
FetchMatchesReturn ==
  /\ listPc \in {"messages_ok", "messages_err"}
  /\ matchList' = MatchesWithProfiles(listData, listMsgs, Viewer)
  /\ listLoading' = FALSE
  /\ listPc' = "idle"
  /\ UNCHANGED <<listData, listMsgs, listTable, roundTrips>>
  /\ UNCHANGED <<dbVars, chatVars, msgVars, sendVars, limVars, appVars>>

\* ----------------------------------------------------------------- Discover
\* the frame of the Discover screen: what its steps leave alone
nonDiscoverVars == <<chatVars, msgVars, listVars, limVars, chatId, auth,
                     newMessage, sending, insert, pending, sendResult, alert,
                     tx, response, warned>>

\* `swipe:${user.id}`
SwipeKey == "swipe:user"

\* CREATE POLICY "Users can view their own swipes" FOR SELECT USING (auth.uid() = user_id)
SwipesSelectPolicy(uid, row) == uid = row.user_id

\* .from('swipes').select('target_user_id').eq('user_id', user.id) by a session
\* authenticated as uid, and swipedUsers.map(s => s.target_user_id)
SwipedIds(uid) ==
  {row.target_user_id :
     row \in {r \in BagToSet(swipes) : SwipesSelectPolicy(uid, r) /\ r.user_id = uid}}

\* CREATE POLICY "Authenticated users can view all profiles" FOR SELECT USING (true)
ProfilesSelectPolicy(uid, id) == TRUE

\* the orders in which a query without ORDER BY can return the rows of S
Orderings(S) ==
  {seq \in [1..Cardinality(S) -> S] : \A i, j \in 1..Cardinality(S) : seq[i] = seq[j] => i = j}

\* .from('profiles').select('*').neq('id', user.id).not('id', 'in', swipedIds)
\* (the deck is far below limit(20))
ProfilesQuery(uid, swipedIds) ==
  Orderings({id \in Identities : ProfilesSelectPolicy(uid, id) /\ id # uid /\ id \notin swipedIds})

\* fetchProfiles lines 845-853 on the state d of the screen: if (!user)
\* return; setLoading(true) and the swipes query
FetchProfilesCall(d) ==
  IF auth.session = 0
    THEN [d EXCEPT !.fetchPc = "idle"]
    ELSE [d EXCEPT !.loading = TRUE, !.fetchPc = "swipes_sent",
                   !.swipedAtFetch = SwipedIds(auth.session)]

\* useEffect(() => { fetchProfiles(); }, [])
MountDiscover ==
  /\ discover.fetchPc = "unmounted"
  /\ discover' = FetchProfilesCall(discover)
  /\ UNCHANGED <<swipes, matches, limits, now, captured>>
  /\ UNCHANGED nonDiscoverVars

\* the Reload button, rendered when loading is false and currentIndex >=
\* profiles.length: setCurrentIndex(0); fetchProfiles()
Reload ==
  /\ discover.fetchPc = "idle" /\ ~discover.loading
  /\ discover.currentIndex >= Len(discover.profiles)
  /\ discover' = FetchProfilesCall([discover EXCEPT !.currentIndex = 0])
  /\ UNCHANGED <<swipes, matches, limits, now, captured>>
  /\ UNCHANGED nonDiscoverVars

\* the data store runs the swipes query
ServerSwipesQuery ==
  /\ discover.fetchPc = "swipes_sent"
  /\ discover' = [discover EXCEPT !.fetchPc = "swipes_ok", !.swipedIds = SwipedIds(Viewer)]
  /\ UNCHANGED <<swipes, matches, limits, now, captured>>
  /\ UNCHANGED nonDiscoverVars

\* the swipes query fails: swipeError is set
ServerSwipesError ==
  /\ discover.fetchPc = "swipes_sent"
  /\ captured < MaxReports
  /\ discover' = [discover EXCEPT !.fetchPc = "swipes_err"]
  /\ UNCHANGED <<swipes, matches, limits, now, captured>>
  /\ UNCHANGED nonDiscoverVars

\* fetchProfiles resumes after the swipes query (lines 855-865): throw into
\* catch (captureException) and finally, or the profiles query
FetchProfilesContinue ==
  /\ discover.fetchPc \in {"swipes_ok", "swipes_err"}
  /\ IF discover.fetchPc = "swipes_err"
       THEN /\ discover' = [discover EXCEPT !.fetchPc = "idle", !.loading = FALSE]
            /\ captured' = captured + 1
       ELSE /\ discover' = [discover EXCEPT !.fetchPc = "profiles_sent"]
            /\ UNCHANGED captured
  /\ UNCHANGED <<swipes, matches, limits, now>>
  /\ UNCHANGED nonDiscoverVars

\* the data store runs the profiles query
ServerProfilesQuery ==
  /\ discover.fetchPc = "profiles_sent"
  /\ \E data \in ProfilesQuery(Viewer, discover.swipedIds) :
        discover' = [discover EXCEPT !.fetchPc = "profiles_ok", !.data = data]
  /\ UNCHANGED <<swipes, matches, limits, now, captured>>
  /\ UNCHANGED nonDiscoverVars

\* the profiles query fails: error is set
ServerProfilesError ==
  /\ discover.fetchPc = "profiles_sent"
  /\ captured < MaxReports
  /\ discover' = [discover EXCEPT !.fetchPc = "profiles_err"]
  /\ UNCHANGED <<swipes, matches, limits, now, captured>>
  /\ UNCHANGED nonDiscoverVars

\* fetchProfiles resumes after the profiles query (lines 867-879)
FetchProfilesReturn ==
  /\ discover.fetchPc \in {"profiles_ok", "profiles_err"}
  /\ IF discover.fetchPc = "profiles_err"
       THEN /\ discover' = [discover EXCEPT !.fetchPc = "idle", !.loading = FALSE]
            /\ captured' = captured + 1
       ELSE /\ discover' = [discover EXCEPT !.fetchPc = "idle", !.loading = FALSE,
                                            !.profiles = discover.data,
                                            !.currentIndex = 0]
            /\ UNCHANGED captured
  /\ UNCHANGED <<swipes, matches, limits, now>>
  /\ UNCHANGED nonDiscoverVars

\* if (swiping || ...) return: the test of the swiping flag
SwipingGuard(flag) == flag

\* handleSwipe up to its await (lines 882-904); the screen renders the deck
\* when loading is false
HandleSwipe(isLike) ==
  /\ discover.fetchPc # "unmounted" /\ ~discover.loading
  /\ LET rateLimit == RateLimiterCheck(limits, SwipeKey, RATE_LIMITS.SWIPE, now)
     IN IF \/ SwipingGuard(discover.swiping)
           \/ auth.session = 0
           \/ discover.currentIndex >= Len(discover.profiles)
          THEN /\ discover' = [discover EXCEPT !.result = "returned"]
               /\ UNCHANGED limits
          ELSE IF ~rateLimit.allowed
          THEN /\ discover' = [discover EXCEPT !.result = "limited"]
               /\ limits' = rateLimit.limits
          ELSE /\ discover' = [discover EXCEPT
                                 !.result = "issued", !.swiping = TRUE, !.swipePc = "sent",
                                 !.target = discover.profiles[discover.currentIndex + 1],
                                 !.isLike = isLike]
               /\ limits' = rateLimit.limits
  /\ UNCHANGED <<swipes, matches, now, captured>>
  /\ UNCHANGED nonDiscoverVars

\* the data store runs the swipe insert of the screen as one transaction: the
\* row passes the insert policy and the unique constraint, the trigger adds
\* the match of a mutual like, and both rows commit
ServerSwipeOk ==
  /\ discover.swipePc = "sent"
  /\ LET row == SwipeRow(Viewer, discover.target, discover.isLike)
         l == LEAST(row.user_id, row.target_user_id)
         g == GREATEST(row.user_id, row.target_user_id)
     IN /\ SwipesInsertPolicy(Viewer, row)
        /\ ~SwipesUniqueViolation(row)
        /\ swipes' = swipes (+) SetToBag({row})
        /\ matches' =
             IF /\ row.is_like /\ ReverseLikeExists(NewTx(row))
                /\ ~\E m \in matches : m.user1_id = l /\ m.user2_id = g
                /\ MatchesCheck(l, g)
               THEN matches \cup {[id |-> NewMatchId, user1_id |-> l, user2_id |-> g]}
               ELSE matches
  /\ discover' = [discover EXCEPT !.swipePc = "ok"]
  /\ UNCHANGED <<limits, now, captured>>
  /\ UNCHANGED nonDiscoverVars

\* the swipe insert fails (unique constraint, policy, network): error is set
ServerSwipeError ==
  /\ discover.swipePc = "sent"
  /\ captured < MaxReports
  /\ discover' = [discover EXCEPT !.swipePc = "error"]
  /\ UNCHANGED <<swipes, matches, limits, now, captured>>
  /\ UNCHANGED nonDiscoverVars

\* if (error) throw error; setCurrentIndex((prev) => prev + 1): the index
\* after the await, failed telling whether error was set
SwipeThen_Always(prev, failed) == prev + 1
SwipeThen(prev, failed) == IF failed THEN prev ELSE prev + 1

\* handleSwipe resumes after the await (lines 906-919): the index, the catch
\* block (captureException) and finally setSwiping(false)
SwipeReturn ==
  /\ discover.swipePc \in {"ok", "error"}
  /\ discover' = [discover EXCEPT
                    !.currentIndex = SwipeThen(@, discover.swipePc = "error"),
                    !.swiping = FALSE, !.swipePc = "none"]
  /\ captured' = IF discover.swipePc = "error" THEN captured + 1 ELSE captured
  /\ UNCHANGED <<swipes, matches, limits, now>>
  /\ UNCHANGED nonDiscoverVars

\* ------------------------------------------------------------ AuthProvider
\* the sessions the auth client can hold: none (0) or the one of the user
Sessions == {0, Viewer}

\* useEffect of AuthProvider: getSession() is called and the callback of
\* onAuthStateChange is registered
AuthMount ==
  /\ auth.getSession = "none"
  /\ auth' = [auth EXCEPT !.getSession = "pending"]
  /\ UNCHANGED <<dbVars, chatVars, msgVars, sendVars, listVars, limVars, chatId, discover>>

\* the auth client reads its session for the getSession call
GetSessionRead ==
  /\ auth.getSession = "pending"
  /\ auth' = [auth EXCEPT !.getSession = "read", !.result = auth.client]
  /\ UNCHANGED <<dbVars, chatVars, msgVars, sendVars, listVars, limVars, chatId, discover>>

\* getSession().then(({ data: { session } }) => { setSession(session); setLoading(false) })
GetSessionThen ==
  /\ auth.getSession = "read"
  /\ auth' = [auth EXCEPT !.getSession = "done", !.session = auth.result, !.loading = FALSE]
  /\ UNCHANGED <<dbVars, chatVars, msgVars, sendVars, listVars, limVars, chatId, discover>>

\* an authentication event (sign-in, sign-out, token refresh) gives the auth
\* client the session s and the client calls the registered callback:
\* setSession(session).  events and last are history: the number of events
\* and the session of the latest one.
OnAuthStateChange(s) ==
  /\ auth.getSession # "none"
  /\ auth.events < MaxEvents
  /\ auth' = [auth EXCEPT !.client = s, !.session = s, !.events = @ + 1, !.last = s]
  /\ UNCHANGED <<dbVars, chatVars, msgVars, sendVars, listVars, limVars, chatId, discover>>

\* ---------------------------------------------------------- specifications
Next ==
  \/ \E uid \in Users, u \in Users, v \in Users, l \in BOOLEAN :
        InsertSwipe(uid, SwipeRow(u, v, l))
  \/ \E r \in tx : TriggerCheckReverse(r)
  \/ \E r \in tx : TriggerSelectMatchExists(r)
  \/ \E r \in tx : TriggerInsertMatch(r)
  \/ \E r \in tx : CommitSwipe(r)
  \/ \E uid \in Users, u1 \in Users, u2 \in Users : InsertMatchDirect(uid, u1, u2)

\* the swipe inserts and every operation the policies admit on table matches
Spec == Init /\ [][Next]_vars

NextSwipes ==
  \/ \E uid \in Users, u \in Users, v \in Users, l \in BOOLEAN :
        InsertSwipe(uid, SwipeRow(u, v, l))
  \/ \E r \in tx : TriggerCheckReverse(r)
  \/ \E r \in tx : TriggerSelectMatchExists(r)
  \/ \E r \in tx : TriggerInsertMatch(r)
  \/ \E r \in tx : CommitSwipe(r)

\* the swipe inserts alone: every match row comes from the trigger
SpecSwipes == Init /\ [][NextSwipes]_vars

NextChat ==
  \/ Mount
  \/ ServerQuery
  \/ ServerQueryError
  \/ FetchReturn
  \/ ServerJoin
  \/ InsertMessage
  \/ InsertMessageOvertaken
  \/ DeliverEvent
  \/ ScrollTimer
  \/ Unmount
  \/ Rerun
  \/ \E f \in stale : StaleServerQuery(f)
  \/ \E f \in stale : StaleServerQueryError(f)
  \/ \E f \in stale : StaleFetchReturn(f)

\* one chat session and the messages table of its match
SpecChat == Init /\ [][NextChat]_vars

NextRoute ==
  \/ Mount
  \/ ServerQueryOfId
  \/ ServerQueryError
  \/ FetchReturn
  \/ ServerJoin
  \/ \E mid \in RouteIds : InsertMessageOf(mid)
  \/ DeliverEvent
  \/ ScrollTimer
  \/ Unmount
  \/ \E id \in RouteIds : ChangeId(id)
  \/ \E f \in stale : StaleServerQueryOfId(f)
  \/ \E f \in stale : StaleServerQueryError(f)
  \/ \E f \in stale : StaleFetchReturn(f)

\* one chat session whose route parameter changes, and the messages table
SpecRoute == Init /\ [][NextRoute]_vars

\* rateLimiter is one object of the process and outlives a chat session: when
\* a session opens, its user has sent none, all but one, or all of the
\* messages of the budget of the window that started at time 0
EarlierSends == {0, RATE_LIMITS.MESSAGE.maxAttempts - 1, RATE_LIMITS.MESSAGE.maxAttempts}

\* a session that is open and active on a match without messages
InitActive ==
  /\ InitDb /\ InitMessages /\ InitList /\ InitLimiter /\ InitApp
  /\ dbMessages = <<>> /\ messages = <<>> /\ fetchData = <<>> /\ feed = <<>> /\ timers = 0
  /\ loading = FALSE /\ fetch = "done" /\ channel = "joined"
  /\ openChannels = 1 /\ stale = {} /\ reruns = 0
  /\ newMessage = EmptyText /\ sending = FALSE /\ insert = "none" /\ pending = EmptyText
  /\ sendResult = "none" /\ now = 0 /\ captured = 0 /\ alert = "none"
  /\ \E n \in EarlierSends :
        limits = IF n = 0 THEN <<>>
                 ELSE MapSet(<<>>, MessageKey,
                             [count |-> n, resetTime |-> RATE_LIMITS.MESSAGE.windowMs])

NextSend ==
  \/ \E text \in Texts : OnChangeText(text)
  \/ SendMessage
  \/ ServerInsertOk
  \/ ServerInsertError
  \/ SendReturn
  \/ Tick
  \/ DeliverEvent
  \/ ScrollTimer
  \/ Unmount

\* the sends of one active chat session
SpecSend == InitActive /\ [][NextSend]_vars

\* the insert request settles and the continuation of sendMessage runs
SpecSendFair ==
  /\ SpecSend
  /\ WF_vars(ServerInsertOk \/ ServerInsertError)
  /\ WF_vars(SendReturn)

\* the match ids a client can name: those of the rows and one that no row has
MatchIds == 1..(MaxMatchRows + 1)

NextMessages ==
  \/ \E uid \in Identities, u1 \in Identities, u2 \in Identities : InsertMatchDirect(uid, u1, u2)
  \/ \E uid \in Identities, mid \in MatchIds, sid \in Identities : InsertMessageRow(uid, mid, sid)

\* every insert the policies admit on tables matches and messages
SpecMessages == Init /\ [][NextMessages]_vars

\* the calls the process made on rateLimiter before the first step: none, or
\* for one caller a check at time 0 and, at time t, further checks up to one
\* less than its budget or up to its budget (t is inside the window of the
\* first check, so each further check adds one to the count of its entry)
EarlierCalls(key, config, t, n) ==
  <<CallRecord("check", key, config, 0, TRUE, 0, TRUE, 1),
    CallRecord("check", key, config, t, TRUE, 0, FALSE, n - 1)>>

InitCalls ==
  \/ /\ calls = <<>> /\ limits = <<>> /\ now = 0
  \/ \E c \in Callers, t \in {TickMs, TickMs + 1} :
        \E n \in {c[2].maxAttempts - 1, c[2].maxAttempts} :
           /\ calls = EarlierCalls(c[1], c[2], t, n)
           /\ limits = [RateLimiterCheck(<<>>, c[1], c[2], 0).limits EXCEPT ![c[1]].count = n]
           /\ now = t

InitLimiterCalls ==
  /\ InitCalls
  /\ InitDb /\ InitChat /\ InitMessages /\ InitList /\ InitApp
  /\ newMessage = EmptyText /\ sending = FALSE /\ insert = "none" /\ pending = EmptyText
  /\ sendResult = "none" /\ captured = 0 /\ alert = "none"
  /\ login = [loading |-> FALSE, request |-> "none", email |-> "", signIns |-> 0]

NextLimiter ==
  \/ \E c \in Callers : Check(c[1], c[2])
  \/ \E c \in Callers : Reset(c[1])
  \/ Clear
  \/ Tick

\* rateLimiter under every sequence of calls of its three methods
SpecLimiter == InitLimiterCalls /\ [][NextLimiter]_vars

NextLogin ==
  \/ \E email \in EmailTexts, password \in Passwords : HandleLogin(email, password)
  \/ SignInOk
  \/ SignInError
  \/ LoginReturn
  \/ Tick

\* the Login screen and rateLimiter
SpecLogin == InitLimiterCalls /\ [][NextLogin]_vars

NextAppendOnly ==
  \/ \E u \in Users, v \in Users, l \in BOOLEAN :
        tx = {} /\ InsertSwipe(u, SwipeRow(u, v, l))
  \/ \E r \in tx : TriggerCheckReverse(r)
  \/ \E r \in tx : TriggerSelectMatchExists(r)
  \/ \E r \in tx : TriggerInsertMatch(r)
  \/ \E r \in tx : CommitSwipe(r)
  \/ \E uid \in Users, mid \in MatchIds :
        /\ Cardinality(messageRows) < MaxListMsgs
        /\ MessagesInsertPolicy(uid, mid, uid)
        /\ InsertMessageRow(uid, mid, uid)
  \/ \E uid \in Identities, r \in BagToSet(swipes) :
        UpdateSwipes(uid, r.user_id, r.target_user_id, ~r.is_like)
  \/ \E uid \in Identities, r \in BagToSet(swipes) :
        DeleteSwipes(uid, r.user_id, r.target_user_id)
  \/ \E uid \in Identities, r \in messageRows :
        \E sid \in Users \ {r.sender_id} : UpdateMessageRow(uid, r.id, sid)
  \/ \E uid \in Identities, r \in messageRows : DeleteMessageRow(uid, r.id)

\* the inserts the policies admit (swipes one at a time) and every UPDATE and
\* DELETE that names a row of the two tables and would change it
SpecAppendOnly == Init /\ [][NextAppendOnly]_vars

NextRead ==
  \/ \E uid \in Identities, u1 \in Identities, u2 \in Identities : InsertMatchDirect(uid, u1, u2)
  \/ \E uid \in Identities, mid \in MatchIds :
        MessagesInsertPolicy(uid, mid, uid) /\ InsertMessageRow(uid, mid, uid)
  \/ \E uid \in Identities, mid \in MatchIds : SelectMessages(uid, mid)

\* the inserts the policies admit on matches and messages, and every read of
\* the messages of a match
SpecRead == Init /\ [][NextRead]_vars

\* the pairs a match row can hold
MatchPairs == {p \in Identities \X Identities : MatchesCheck(p[1], p[2])}

\* the tables of up to n match rows of distinct pairs, in every order of creation
MatchTables(n) ==
  {{[id |-> i, user1_id |-> q[i][1], user2_id |-> q[i][2]] : i \in DOMAIN q} :
     q \in {x \in UNION {[1..k -> MatchPairs] : k \in 0..n} :
               \A i \in DOMAIN x, j \in DOMAIN x : i # j => x[i] # x[j]}}

\* the Matches screen opens on a data store that holds some matches
InitMatchesScreen ==
  /\ matches \in MatchTables(MaxListMatches)
  /\ swipes = EmptyBag /\ tx = {} /\ response = "none" /\ warned = FALSE
  /\ InitChat /\ InitMessages /\ InitSend /\ InitList /\ InitLimiter /\ InitApp

NextList ==
  \/ MountMatches
  \/ OnRefresh
  \/ ServerMatchesQuery
  \/ ServerMatchesError
  \/ FetchMatchesContinue
  \/ ServerMessagesQuery
  \/ ServerMessagesError
  \/ FetchMatchesReturn
  \/ \E uid \in Identities, mid \in 1..MaxListMatches :
        /\ Cardinality(messageRows) < MaxListMsgs
        /\ MessagesInsertPolicy(uid, mid, uid)
        /\ InsertMessageRow(uid, mid, uid)

\* the Matches screen of one user while participants send messages
SpecList == InitMatchesScreen /\ [][NextList]_vars

\* the app starts: AuthProvider is constructed with session null while the
\* auth client holds no session or the stored session of the user; the tab
\* screens are not mounted yet
InitAuthProvider ==
  /\ matches \in MatchTables(MaxListMatches)
  /\ swipes = EmptyBag /\ tx = {} /\ response = "none" /\ warned = FALSE
  /\ InitChat /\ InitMessages /\ InitSend /\ InitList /\ InitLimiter
  /\ chatId = 1 /\ discover = NotMounted
  /\ \E s \in Sessions :
        auth = [session |-> 0, loading |-> TRUE, getSession |-> "none", result |-> 0,
                client |-> s, events |-> 0, last |-> 0]

NextAuth ==
  \/ AuthMount
  \/ GetSessionRead
  \/ GetSessionThen
  \/ \E s \in Sessions : OnAuthStateChange(s)
  \/ MountMatches
  \/ OnRefresh
  \/ ServerMatchesQuery
  \/ ServerMatchesError
  \/ FetchMatchesContinue
  \/ ServerMessagesQuery
  \/ ServerMessagesError
  \/ FetchMatchesReturn

\* AuthProvider from the start of the app, and the Matches screen under it
SpecAuth == InitAuthProvider /\ [][NextAuth]_vars

\* rateLimiter outlives the screen: when it mounts, its user has made none,
\* all but one, or all of the swipes of the budget of the window that started
\* at time 0
EarlierSwipes == {0, RATE_LIMITS.SWIPE.maxAttempts - 1, RATE_LIMITS.SWIPE.maxAttempts}

InitDiscover ==
  /\ InitDb /\ InitChat /\ InitMessages /\ InitList /\ InitLimiter /\ InitApp
  /\ newMessage = EmptyText /\ sending = FALSE /\ insert = "none" /\ pending = EmptyText
  /\ sendResult = "none" /\ now = 0 /\ captured = 0 /\ alert = "none"
  /\ \E n \in EarlierSwipes :
        limits = IF n = 0 THEN <<>>
                 ELSE MapSet(<<>>, SwipeKey,
                             [count |-> n, resetTime |-> RATE_LIMITS.SWIPE.windowMs])

NextDiscover ==
  \/ MountDiscover
  \/ Reload
  \/ ServerSwipesQuery
  \/ ServerSwipesError
  \/ FetchProfilesContinue
  \/ ServerProfilesQuery
  \/ ServerProfilesError
  \/ FetchProfilesReturn
  \/ \E isLike \in BOOLEAN : HandleSwipe(isLike)
  \/ ServerSwipeOk
  \/ ServerSwipeError
  \/ SwipeReturn
  \/ Tick

\* the Discover screen of one signed-in user
SpecDiscover == InitDiscover /\ [][NextDiscover]_vars

\* ============================================================ properties
Like(u, v) == SwipeRow(u, v, TRUE)
Liked(u, v) == CopiesIn(Like(u, v), swipes) > 0

\* the match rows of the unordered pair {a, b}
PairMatches(a, b) == {m \in matches : {m.user1_id, m.user2_id} = {a, b}}

\* match rows committed or written by a trigger that has not committed yet
PendingMatches == UNION {{r.newMatch[i] : i \in 1..Len(r.newMatch)} : r \in tx}
AllMatchKeys == {<<m.user1_id, m.user2_id>> : m \in matches} \cup
                {<<m.user1_id, m.user2_id>> : m \in PendingMatches}

\* C1: once 'A likes B' and 'B likes A' have both committed, exactly one Match
\* row exists for the pair {A,B}, under every interleaving of the two inserts.
C1_ExactlyOneMatchForMutualLikes ==
  \A a \in Users, b \in Users :
     (a # b /\ Liked(a, b) /\ Liked(b, a)) => Cardinality(PairMatches(a, b)) = 1

\* C2: a Match row for an unordered pair exists only if both directed Swipes
\* of the pair are likes, whatever swipe inserts and admitted operations on
\* table matches have run.
C2_MatchOnlyIfMutualLikes ==
  \A m \in matches : Liked(m.user1_id, m.user2_id) /\ Liked(m.user2_id, m.user1_id)

\* C3: when 'A likes B' committed before 'B likes A' is inserted, the commit
\* of the second insert publishes, together with its Swipe row, exactly one
\* new Match row, with key (LEAST(A,B), GREATEST(A,B)).
C3_SecondLikeCreatesOneMatch ==
  [][\A r \in tx :
       LET new == r.row IN
       (/\ r.pc = "returned" /\ r \notin tx'
        /\ r.prior /\ new.is_like /\ new.user_id # new.target_user_id)
       => /\ CopiesIn(new, swipes') = CopiesIn(new, swipes) + 1
          /\ \E m \in matches' \ matches :
                /\ matches' \ matches = {m}
                /\ m.user1_id = LEAST(new.user_id, new.target_user_id)
                /\ m.user2_id = GREATEST(new.user_id, new.target_user_id)]_vars

\* C4: every Match row, committed or written by a trigger still in flight,
\* has user1_id < user2_id.
C4_MatchKeyOrdered == \A k \in AllMatchKeys : k[1] < k[2]

\* a trigger fired by the swipe of the greater identity has written its match row
C4_Witness ==
  \E r \in tx : /\ r.pc = "returned" /\ r.newMatch # NoMatch
                 /\ r.row.user_id > r.row.target_user_id

\* C5: a Swipe insert for an ordered pair that already has a row is never
\* accepted (no second row for the pair), and the step that rejects it with a
\* conflict leaves the swipes and the matches as they were.
C5_ResubmitRejected ==
  /\ [](\A u \in Users, v \in Users : SwipeCount(u, v) <= 1)
  /\ [](\A r \in tx : SwipeCount(r.row.user_id, r.row.target_user_id) = 0)
  /\ [][(response' = "conflict" /\ response # "conflict")
            => (swipes' = swipes /\ matches' = matches /\ tx' = tx)]_vars

\* a resubmission was answered with a conflict while the pair has its row
C5_Witness ==
  /\ response = "conflict"
  /\ \E u \in Users, v \in Users : SwipeCount(u, v) = 1

\* C6: a Swipe insert that passed the policy and the constraints of table
\* swipes never fails in the trigger: from every position of the trigger the
\* transaction moves on towards its commit, and the commit adds the Swipe row.
C6_TriggerNeverFailsSwipe ==
  /\ [](response # "failed")
  /\ [][\A r \in tx :
            \/ \E n \in tx' : n.row = r.row
            \/ /\ response' = "committed"
               /\ CopiesIn(r.row, swipes') = CopiesIn(r.row, swipes) + 1]_vars

\* the trigger raised an exception on a self-like, warned, and the swipe committed
C6_Witness ==
  /\ warned /\ response = "committed"
  /\ \E u \in Users : Liked(u, u)

\* C7: no Match row, committed or pending, has the same identity twice.
C7_NoSelfMatch == \A k \in AllMatchKeys : k[1] # k[2]

\* a self-like is committed (its trigger ran)
C7_Witness == \E u \in Users : Liked(u, u)

\* C8: no Swipe row has user_id = target_user_id.
C8_NoSelfSwipe ==
  \A r \in BagToSet(swipes) : r.user_id # r.target_user_id

\* ------------------------------------------------------------------- chat
Count(x, list) == Cardinality({i \in 1..Len(list) : list[i] = x})

\* C9: once the initial fetch has returned and no event is pending, every
\* Message of the match appears exactly once in the displayed list of the open
\* session.
C9_EveryMessageExactlyOnce ==
  (fetch = "done" /\ channel = "joined" /\ feed = <<>>)
     => \A i \in 1..Len(dbMessages) : Count(dbMessages[i], messages) = 1

\* C10: the list never holds an id twice; an event whose id is in the list
\* leaves the list as it is, and an event with a new id is appended at the end.
C10_DedupAppend ==
  /\ [](\A i \in 1..Len(messages) : Count(messages[i], messages) = 1)
  /\ [][(feed # <<>> /\ feed' = Tail(feed) /\ channel' = channel) =>
          LET e == Head(feed) IN
            /\ (e \in Ids(messages)) => messages' = messages
            /\ (e \notin Ids(messages)) =>
                  /\ Len(messages') = Len(messages) + 1
                  /\ SubSeq(messages', 1, Len(messages)) = messages
                  /\ messages'[Len(messages')] = e]_vars

\* the fetch returned [m1, m2], two events were handled since, the list is
\* [m1, m2, m3]
C10_Witness ==
  /\ fetch = "done" /\ fetchData = <<1, 2>>
  /\ messages = <<1, 2, 3>> /\ feed = <<>> /\ timers = 2

\* the participants of the match with id mid (none if no row has the id)
Participants(mid) == UNION {{m.user1_id, m.user2_id} : m \in {x \in matches : x.id = mid}}

\* C11: a Message insert by an identity that is not a participant of the
\* referenced Match is answered with a denial and leaves table messages as it
\* was; the sender of every Message row is one of the two participants of
\* its Match and is the identity that inserted the row.
C11_SenderIsParticipant ==
  /\ [](\A row \in messageRows :
          /\ row.sender_id \in Participants(row.match_id)
          /\ row.sender_id = row.by)
  /\ [][(msgResponse' # msgResponse /\ msgResponse'.uid \notin Participants(msgResponse'.match_id))
          => (msgResponse'.result = "denied" /\ messageRows' = messageRows)]_vars

\* the outsider was denied on a match that a participant had written to
C11_Witness ==
  /\ msgResponse.result = "denied"
  /\ msgResponse.uid = Outsider
  /\ Outsider \notin Participants(msgResponse.match_id)
  /\ \E row \in messageRows : row.match_id = msgResponse.match_id
\* a step of sendMessage that took another branch than the call before it
SendCalled == sendResult' # sendResult

\* C12: a send whose trimmed content is empty or longer than 500 characters
\* takes a rejecting branch, and the rejecting step issues no insert request
\* and leaves the stored rows, the displayed list and the rate limiter as they
\* were; every insert request in flight carries a trimmed content of 1 to 500
\* characters.
C12_InvalidSendRejected ==
  /\ [](insert = "sent" => (pending = Trim(pending) /\ Length(pending) \in 1..500))
  /\ [][(SendCalled /\ ~sending /\ Length(Trim(newMessage)) \notin 1..500)
          => sendResult' \in {"empty", "invalid"}]_vars
  /\ [][(SendCalled /\ sendResult' \in {"empty", "invalid"})
          => (/\ insert' = insert /\ pending' = pending /\ sending' = sending
              /\ dbMessages' = dbMessages /\ messages' = messages
              /\ limits' = limits)]_vars

\* a text of 501 characters was rejected while part of the budget was used
C12_Witness ==
  /\ sendResult = "invalid"
  /\ Length(Trim(newMessage)) = 501
  /\ insert = "none"
  /\ MessageKey \in DOMAIN limits /\ limits[MessageKey].count = 1
\* the step in which sendMessage resumes after a failed insert
SendFailed == insert = "error" /\ insert' = "none"

\* C13: the step in which sendMessage resumes after a failed insert puts the
\* content of the request back into the input field, hands one exception to
\* the error tracker, clears the sending flag and leaves the stored rows and
\* the displayed list as they were; a send called when the flag is clear, with
\* valid content and budget left, issues its insert request.
C13_FailedSendRestoresInput ==
  /\ [][SendFailed
          => (/\ newMessage' = pending
              /\ captured' = captured + 1
              /\ sending' = FALSE
              /\ messages' = messages /\ dbMessages' = dbMessages)]_vars
  /\ [][(/\ SendCalled /\ ~sending
         /\ messageSchema(Trim(newMessage))
         /\ RateLimiterCheck(limits, MessageKey, RATE_LIMITS.MESSAGE, now).allowed)
          => (insert' = "sent" /\ pending' = Trim(newMessage))]_vars

\* after a failed send put the text back, the text was sent again
C13_Witness ==
  /\ captured = 1
  /\ insert = "sent" /\ pending = Text(0, 1, 0)
  /\ sending /\ newMessage = EmptyText
  /\ limits[MessageKey].count = 2

\* C14: the step in which a send is rejected because the rate budget is
\* exhausted issues no insert request and shows the user a retry-after
\* notice.
C14_RateLimitSurfacesRetryAfter ==
  [][(SendCalled /\ sendResult' = "limited")
       => (/\ insert' = insert /\ dbMessages' = dbMessages
           /\ alert' # "none")]_vars

\* C18: whenever the sending flag is set it is cleared later, given that the
\* insert request settles and the continuation of sendMessage runs.
C18_SendingEventuallyCleared == sending ~> ~sending

\* one send returned after its row was stored and one after a failure, and
\* the flag is clear
C18_Witness ==
  /\ ~sending /\ insert = "none"
  /\ Len(dbMessages) = 1 /\ captured = 1
  /\ sendResult = "issued"
\* C15: the session holds at most one channel, exactly one while it is
\* mounted, also after its effect ran again, and none once it is torn down.
C15_ChannelReleased ==
  /\ openChannels <= 1
  /\ (channel \in {"joining", "joined"} => openChannels = 1)
  /\ (channel = "removed" => openChannels = 0)

\* the session was torn down after its effect had run again
C15_Witness == channel = "removed" /\ reruns >= 1 /\ openChannels = 0

\* C16: once the session is torn down, no step changes the displayed list, the
\* loading flag, the sending flag or the input text.
C16_NoUpdateAfterTeardown ==
  [][channel = "removed"
       => (/\ messages' = messages /\ loading' = loading
           /\ sending' = sending /\ newMessage' = newMessage)]_vars

\* C17: once the loading flag is false no step sets it again.
C17_ActiveNeverBackToLoading == [][loading = FALSE => loading' = FALSE]_vars
\* C19: a run of fetchMatches issues at most two queries, for a user with no
\* match, one match or more.
C19_AtMostTwoRoundTrips == roundTrips <= 2

\* a run over two matches has issued both of its queries
C19_Witness == listPc = "messages_ok" /\ Len(listData) = 2 /\ roundTrips = 2

\* the rows of match id that the other participant sent, in table rows
FromPeer(rows, entry) ==
  {row \in rows : /\ row.match_id = entry.id
                  /\ row.sender_id # Viewer
                  /\ row.sender_id \in {entry.user1_id, entry.user2_id}}

\* C20: when fetchMatches sets the list, the unreadCount of every entry is the
\* number of rows of table messages (as the messages query found it) that
\* belong to the entry's match and were sent by the other participant.
C20_UnreadCountsPeerMessages ==
  [][(listPc \in {"messages_ok", "messages_err"} /\ listPc' = "idle")
       => \A i \in 1..Len(matchList') :
             matchList'[i].unreadCount = Cardinality(FromPeer(listTable, matchList'[i]))]_vars

\* the match rows in which user uid participates
MatchesOf(uid) == {m \in matches : uid \in {m.user1_id, m.user2_id}}

\* C21: the list that fetchMatches sets has exactly one entry per match in
\* which the user participates, in descending order of match creation, and
\* each entry carries the profile of the other participant, never the user's.
C21_OneEntryPerMatchNewestFirst ==
  [][(listPc \in {"messages_ok", "messages_err"} /\ listPc' = "idle")
       => LET list == matchList' IN
          /\ {list[i].id : i \in 1..Len(list)} = {m.id : m \in MatchesOf(Viewer)}
          /\ Len(list) = Cardinality(MatchesOf(Viewer))
          /\ \A i \in 1..Len(list), j \in 1..Len(list) : i < j => list[i].id > list[j].id
          /\ \A i \in 1..Len(list) :
                /\ list[i].profile # Viewer
                /\ \E m \in MatchesOf(Viewer) :
                      /\ m.id = list[i].id
                      /\ {list[i].profile, Viewer} = {m.user1_id, m.user2_id}]_vars

\* the list of a user who is user2_id of one match and user1_id of another
C21_Witness ==
  /\ listPc = "idle" /\ Len(matchList) = 2
  /\ matchList[1].user1_id = Viewer /\ matchList[2].user2_id = Viewer

\* the rows of table rows that belong to the match of entry
RowsOfMatch(rows, entry) == {row \in rows : row.match_id = entry.id}

\* C22: when fetchMatches sets the list, lastMessage of every entry is the
\* newest message of the entry's match, and it is absent exactly when the
\* match has no messages (in table messages as the messages query found it).
C22_LastMessageIsNewest ==
  [][(listPc \in {"messages_ok", "messages_err"} /\ listPc' = "idle")
       => \A i \in 1..Len(matchList') :
             LET rows == RowsOfMatch(listTable, matchList'[i]) IN
             /\ (matchList'[i].lastMessage = 0) <=> (rows = {})
             /\ rows # {} =>
                   /\ matchList'[i].lastMessage \in {row.id : row \in rows}
                   /\ \A row \in rows : row.id <= matchList'[i].lastMessage]_vars

\* the config the callers check key against
ConfigOf(key) == (CHOOSE c \in Callers : c[1] = key)[2]

\* the number of calls among records i..j of the history that are checks of
\* key, returned allowed and were made before time until
RECURSIVE AllowedChecks(_, _, _, _)
AllowedChecks(i, j, key, until) ==
  IF i > j THEN 0
  ELSE (IF /\ calls[i].op = "check" /\ calls[i].key = key
           /\ calls[i].allowed /\ calls[i].t < until
          THEN calls[i].n ELSE 0) + AllowedChecks(i + 1, j, key, until)

\* record j of the history deletes the entry of key
Deletes(j, key) ==
  \/ calls[j].op = "reset" /\ calls[j].key = key
  \/ calls[j].op = "clear"

\* the last record of the window that record i opened: the one before the next
\* reset of the key or clear, or the last of the history
WindowEnd(i) ==
  IF \E j \in (i + 1)..Len(calls) : Deletes(j, calls[i].key)
    THEN (CHOOSE j \in (i + 1)..Len(calls) :
            /\ Deletes(j, calls[i].key)
            /\ \A h \in (i + 1)..(j - 1) : ~Deletes(h, calls[i].key)) - 1
    ELSE Len(calls)

\* no stored count exceeds the budget of its key
CountWithinBudget ==
  \A key \in DOMAIN limits : limits[key].count <= ConfigOf(key).maxAttempts

\* C23 as stated: among the check calls made from the call that opens a window
\* (time t0) until t0 + windowMs at most maxAttempts return allowed, and the
\* stored count of a key never exceeds maxAttempts.
C23_FixedWindowStated ==
  /\ CountWithinBudget
  /\ \A i \in DOMAIN calls :
       (calls[i].op = "check" /\ calls[i].opened) =>
          AllowedChecks(i, Len(calls), calls[i].key, calls[i].t + calls[i].config.windowMs)
             <= calls[i].config.maxAttempts

\* C23 amended: among the check calls made from the call that opens a window
\* (time t0) until t0 + windowMs or until the next reset of the key or clear,
\* whichever comes first, at most maxAttempts return allowed, and the stored
\* count of a key never exceeds maxAttempts.
C23_FixedWindow ==
  /\ CountWithinBudget
  /\ \A i \in DOMAIN calls :
       (calls[i].op = "check" /\ calls[i].opened) =>
          AllowedChecks(i, WindowEnd(i), calls[i].key, calls[i].t + calls[i].config.windowMs)
             <= calls[i].config.maxAttempts

\* a window whose budget was used up and in which a further check was denied
C23_Witness ==
  \E i \in DOMAIN calls, j \in DOMAIN calls :
     /\ calls[i].op = "check" /\ calls[i].opened /\ i < j /\ j <= WindowEnd(i)
     /\ calls[j].op = "check" /\ calls[j].key = calls[i].key /\ ~calls[j].allowed
     /\ calls[j].t < calls[i].t + calls[i].config.windowMs
     /\ AllowedChecks(i, j, calls[i].key, calls[j].t + 1) = calls[i].config.maxAttempts

\* C24: for the key of a user's message sends, which no caller resets, every
\* interval of 60 seconds holds at most 30 allowed checks.
C24_ThirtyPerMinute ==
  (\A j \in DOMAIN calls : ~Deletes(j, MessageKey)) =>
     \A i \in DOMAIN calls :
        (calls[i].op = "check" /\ calls[i].key = MessageKey) =>
           AllowedChecks(i, Len(calls), MessageKey, calls[i].t + RATE_LIMITS.MESSAGE.windowMs)
              <= RATE_LIMITS.MESSAGE.maxAttempts

\* the window of key is open and, with no reset of the key since it opened,
\* the login attempts made in it have used up the budget
LoginBudgetUsed(key) ==
  \E i \in DOMAIN calls :
     /\ calls[i].op = "check" /\ calls[i].key = key /\ calls[i].opened
     /\ WindowEnd(i) = Len(calls)
     /\ now < calls[i].t + RATE_LIMITS.LOGIN.windowMs
     /\ AllowedChecks(i, Len(calls), key, now + 1) >= RATE_LIMITS.LOGIN.maxAttempts

\* this step is a call of handleLogin that reaches the rate limiter with email
LoginAttempt(email) ==
  /\ Len(calls') = Len(calls) + 1
  /\ calls'[Len(calls')].op = "check"
  /\ calls'[Len(calls')].key = LoginKey(email)

\* C25: after 5 login attempts for an email within the window and no
\* successful login, a further attempt is rejected and sends no sign-in
\* request; a successful login deletes the counter of its email.
C25_LoginLimit ==
  [][/\ \A email \in Emails :
          (LoginAttempt(email) /\ LoginBudgetUsed(LoginKey(email))) =>
             /\ ~calls'[Len(calls')].allowed
             /\ login' = login
             /\ alert' = "Too Many Attempts"
     /\ (login.request = "ok" /\ login'.request = "none") =>
             LoginKey(login.email) \notin DOMAIN limits']_vars

\* an attempt was rejected for one email, and a login with another email
\* succeeded and reset its counter
C25_Witness ==
  /\ login.signIns = 1
  /\ \E i \in DOMAIN calls, j \in DOMAIN calls :
        /\ calls[i].op = "check" /\ ~calls[i].allowed
        /\ calls[j].op = "reset" /\ calls[j].key # calls[i].key

\* C26: swipes and messages are append-only: a row of either table is in the
\* table, with the same field values, after every step.
C26_AppendOnly ==
  [][/\ \A r \in BagToSet(swipes) : CopiesIn(r, swipes') >= CopiesIn(r, swipes)
     /\ messageRows \subseteq messageRows']_vars

\* both tables hold a row and an UPDATE or DELETE ran on each
C26_Witness ==
  /\ swipes # EmptyBag /\ response = "no_rows"
  /\ messageRows # {} /\ msgResponse.result = "no_rows"

\* C27: a read of the messages of a match returns every message of the match
\* to a participant of the match and no row to any other identity.
C27_ReadableByParticipantsOnly ==
  [][(msgResponse' # msgResponse /\ msgResponse'.result = "selected") =>
        msgResponse'.rows =
          IF msgResponse'.uid \in Participants(msgResponse'.match_id)
            THEN {row \in messageRows : row.match_id = msgResponse'.match_id}
            ELSE {}]_vars

\* an identity outside a match that holds a message read the match and got
\* no row
C27_Witness ==
  /\ msgResponse.result = "selected"
  /\ msgResponse.rows = {}
  /\ msgResponse.uid \notin Participants(msgResponse.match_id)
  /\ \E row \in messageRows : row.match_id = msgResponse.match_id

\* the place of message id in the created_at order of table messages
CreatedRank(id) == CHOOSE i \in 1..Len(dbMessages) : dbMessages[i] = id

\* C28: the displayed list of an open chat session is in ascending order of
\* creation time in every state.
C28_DisplayedAscending ==
  \A i \in 1..Len(messages), j \in 1..Len(messages) :
     i < j => CreatedRank(messages[i]) < CreatedRank(messages[j])

\* C29: at most one message insert of a chat session is in flight: the
\* sending flag is set while an insert is in flight, an insert is issued (the
\* rate budget is charged) only when none is in flight, and a call of
\* sendMessage while the flag is set issues no insert and changes no state.
C29_OneInsertInFlight ==
  /\ [](insert # "none" => sending)
  /\ [][limits' # limits => insert = "none"]_vars
  /\ [][(sending /\ sendResult' # sendResult) =>
          /\ sendResult' = "busy"
          /\ UNCHANGED <<newMessage, sending, insert, pending, limits, captured,
                         dbMessages, messages, feed>>]_vars

\* sendMessage was called with text in the input while an insert was in flight
C29_Witness ==
  /\ sendResult = "busy" /\ sending /\ insert = "sent"
  /\ Length(Trim(newMessage)) > 0

\* C30: text typed into the input while a send is in flight (the send cleared
\* the input, so any text in it was typed since) is still in the input when
\* sendMessage resumes, whether the insert succeeded or failed.
C30_TypedTextKept ==
  [][(insert \in {"ok", "error"} /\ insert' = "none" /\ newMessage # EmptyText)
       => newMessage' = newMessage]_vars

\* the record of the limiter call made in this step
LastCall == calls'[Len(calls')]

\* the entries of the keys other than key are the same before and after the step
OtherEntriesKept(key) ==
  /\ DOMAIN limits' \ {key} = DOMAIN limits \ {key}
  /\ \A k \in DOMAIN limits \ {key} : limits'[k] = limits[k]

\* C35: a check that returns allowed = false leaves the whole map of the
\* limiter as it was (count and resetTime of the key included), and a check or
\* a reset of one key leaves the entry of every other key as it was.
C35_DeniedCheckChangesNothing ==
  [][(calls' # calls) =>
       /\ (LastCall.op = "check" /\ ~LastCall.allowed) => limits' = limits
       /\ LastCall.op \in {"check", "reset"} => OtherEntriesKept(LastCall.key)]_vars

\* a check was denied while the map holds an entry of another key
C35_Witness ==
  /\ calls # <<>>
  /\ calls[Len(calls)].op = "check" /\ ~calls[Len(calls)].allowed
  /\ \E k \in DOMAIN limits : k # calls[Len(calls)].key
  /\ \E i \in DOMAIN calls : calls[i].op = "check" /\ calls[i].key # calls[Len(calls)].key

\* record i of the history is a denied check of key and no check of key
\* follows it in the history
LastDenial(i, key) ==
  /\ calls[i].op = "check" /\ calls[i].key = key /\ ~calls[i].allowed
  /\ \A j \in (i + 1)..Len(calls) : ~(calls[j].op = "check" /\ calls[j].key = key)

\* C36: a denied check returns retryAfter >= 1; the next check of the key, made
\* retryAfter seconds after the denial or later, is allowed and stores a new
\* entry with count 1; and a check made at or after the resetTime of the key's
\* entry is allowed.
C36_RetryAfterOpensWindow ==
  [][(calls' # calls /\ LastCall.op = "check") =>
       LET key == LastCall.key
       IN /\ ~LastCall.allowed => LastCall.retryAfter >= 1
          /\ (\E i \in DOMAIN calls :
                 LastDenial(i, key) /\ now >= calls[i].t + 1000 * calls[i].retryAfter) =>
                /\ LastCall.allowed
                /\ limits'[key] = [count |-> 1, resetTime |-> now + LastCall.config.windowMs]
          /\ (key \in DOMAIN limits /\ now >= limits[key].resetTime) => LastCall.allowed]_vars

\* a check was denied with the entry still stored, and the next check of the
\* key, made retryAfter seconds later, was allowed
C36_Witness ==
  \E i \in DOMAIN calls :
     /\ calls[i].op = "check" /\ ~calls[i].allowed
     /\ i + 1 = Len(calls)
     /\ calls[i + 1].op = "check" /\ calls[i + 1].key = calls[i].key
     /\ calls[i + 1].allowed /\ calls[i + 1].opened
     /\ calls[i + 1].t >= calls[i].t + 1000 * calls[i].retryAfter

\* the units of the message budget used in the window that is open at time t
UsedBudget(m, t) ==
  IF MessageKey \in DOMAIN m /\ t < m[MessageKey].resetTime THEN m[MessageKey].count ELSE 0

\* C32: sendMessage validates, then checks the rate, then inserts: a call that
\* returns at the validation (blank or invalid text) leaves the limiter as it
\* was; a call rejected by the rate check issues no insert; a call that issues
\* the insert has valid content and has used exactly one unit of the budget;
\* and no later step of the send (the failure of the insert, the catch block)
\* gives the unit back.
C32_ValidateThenChargeThenInsert ==
  [][/\ (SendMessage /\ sendResult' \in {"empty", "invalid"}) =>
           limits' = limits /\ insert' = "none"
     /\ (SendMessage /\ sendResult' = "limited") =>
           /\ messageSchema(Trim(newMessage))
           /\ insert' = "none"
           /\ UsedBudget(limits', now) = RATE_LIMITS.MESSAGE.maxAttempts
     /\ (SendMessage /\ sendResult' = "issued") =>
           /\ messageSchema(pending')
           /\ insert' = "sent"
           /\ UsedBudget(limits', now) = UsedBudget(limits, now) + 1
     /\ (ServerInsertOk \/ ServerInsertError \/ SendReturn) => limits' = limits]_vars

\* a send was charged and its insert failed, and the send after it was
\* rejected by the validation, with units of the budget in use
C32_Witness ==
  /\ captured > 0
  /\ sendResult = "invalid"
  /\ UsedBudget(limits, now) > 0

\* C31: while the list is displayed (the session is mounted and loading is
\* false), every message of it is a row of the match the route parameter names.
C31_DisplayedBelongToCurrentId ==
  (Mounted /\ ~loading) =>
     \A i \in 1..Len(messages) :
        \E row \in messageRows : row.id = messages[i] /\ row.match_id = chatId

\* C37: whenever the Matches screen is mounted and no call of fetchMatches is
\* in flight, loading is false (every call that returned has cleared it).
C37_LoadingClearedAfterFetch ==
  listPc = "idle" => ~listLoading

\* C38: once an authentication event was delivered, the session AuthProvider
\* holds is the session of the latest event.
C38_SessionIsLatestEvent ==
  auth.events > 0 => auth.session = auth.last

\* a call of handleSwipe is made in this step
SwipeRequested == \E isLike \in BOOLEAN : HandleSwipe(isLike)

\* C33: the index stays within 0..profiles.length and swiping is false
\* whenever no insert of handleSwipe is outstanding; when handleSwipe resumes
\* after a successful insert the index grows by exactly one, after a failed
\* insert index and deck stay, and swiping is false afterwards in both cases;
\* a call denied by the rate limiter changes neither index nor deck, sets no
\* flag and issues no insert; a call made while swiping is set issues no
\* insert.
C33_SwipeAdvancesOnSuccessOnly ==
  /\ [](/\ 0 <= discover.currentIndex
        /\ discover.currentIndex <= Len(discover.profiles)
        /\ (discover.swipePc = "none" => ~discover.swiping))
  /\ [][/\ (SwipeReturn /\ discover.swipePc = "ok") =>
              /\ discover'.currentIndex = discover.currentIndex + 1
              /\ discover'.profiles = discover.profiles
              /\ ~discover'.swiping
        /\ (SwipeReturn /\ discover.swipePc = "error") =>
              /\ discover'.currentIndex = discover.currentIndex
              /\ discover'.profiles = discover.profiles
              /\ ~discover'.swiping
        /\ (SwipeRequested /\ discover'.result = "limited") =>
              discover' = [discover EXCEPT !.result = "limited"] /\ discover.swipePc = "none"
        /\ (SwipeRequested /\ discover.swiping) =>
              discover' = [discover EXCEPT !.result = "returned"] /\ swipes' = swipes
        /\ (discover'.swipePc = "sent" /\ discover.swipePc # "sent") =>
              ~discover.swiping /\ discover.swipePc = "none"]_vars

\* one swipe of the deck succeeded and the insert of the next one has failed
C33_Witness ==
  /\ discover.currentIndex = 1
  /\ discover.swipePc = "error"
  /\ discover.swiping
  /\ BagCardinality(swipes) = 1

\* C34: an insert that handleSwipe issues has a target other than the user and
\* a target the user had not swiped when fetchProfiles was called last, and
\* the table never holds two swipes of the user on one target.
C34_NeverSelfNeverSwipedBefore ==
  /\ [](\A id \in Identities : SwipeCount(Viewer, id) <= 1)
  /\ [][(discover'.swipePc = "sent" /\ discover.swipePc # "sent") =>
           /\ discover'.target # Viewer
           /\ discover'.target \notin discover.swipedAtFetch]_vars

====
